---- MODULE Spec2Model ----
(***************************************************************************)
(* Library system: books, patrons and the borrow/return engine over eight  *)
(* denormalised Cassandra tables (models/book.py, models/user.py,          *)
(* models/borrow.py).  Every session.execute of borrow_book / return_book  *)
(* is one step of the calling thread, so that a write failure between two  *)
(* statements and the interleaving of two callers are both expressible.    *)
(***************************************************************************)
EXTENDS Integers, Sequences, FiniteSets, TLC

(* ------------------------------ bounds -------------------------------- *)
\* Calls that reach their write sequence: each one advances the clock once.
MaxClock == 4
\* Largest total_copies a book is added with.
MaxCopies == 2
\* Calls that reach their write sequence when callers run concurrently.
MaxConcClock == 1
\* Write statements that raise in one run.
MaxFailures == 1

(* ------------------------- program constants -------------------------- *)
\* loan_days: int = 14
DefaultLoanDays == 14
\* Python None in an integer column (available_copies, return_date, ...).
NoneInt == -1
\* Clock ticks per day of timedelta(days=loan_days).
TicksPerDay == 10

(* ------------------------------ inputs -------------------------------- *)
Isbns == {"x1", "x2"}
\* The ISBNs the set-up adds a book for ("x2" stays unknown).
SetupIsbns == {"x1"}
UserIds == {"u1", "u2"}
Emails == {"e1", "e2"}
LoanDayChoices == {DefaultLoanDays}
Causes == {"WriteTimeout"}
\* The caller of the serial runs, and the callers that run concurrently.
SerialProcs == {"p1"}
ConcProcs == {"c1", "c2"}
Procs == SerialProcs \cup ConcProcs
\* Python None in a text column, and .one() of an empty result.
None == "None"
NoRow == [none |-> TRUE]
\* A user_name column that was never written.
NoName == <<>>

VARIABLES
    db,        \* the eight tables, each a set of rows
    clock,     \* wall clock read by datetime.now(timezone.utc)
    pc,        \* per caller: the statement it is about to execute
    call,      \* per caller: the operation and its arguments
    loc,       \* per caller: the local variables of borrow_book / return_book
    result,    \* per caller: the BorrowResult returned
    snap,      \* history: the locals with which the caller's call returned and,
               \* for a serial caller, db, returned and closed when it began
               \* (before: db when the Borrow began that this Return follows)
    applied,   \* history: the write statements the current call has executed
    wfail,     \* history: the number of write statements that have raised so far
    returned,  \* history: the (patron, isbn) pairs with a successful Return and
               \* no Borrow call of that pair begun since
    closed     \* history: the pairs of returned whose Return left the patron
               \* no open loan of that ISBN

vars == <<db, clock, pc, call, loc, result, snap, applied, wfail, returned, closed>>

(* ------------------------------ tables -------------------------------- *)
EmptyDb ==
    [books_by_id |-> {}, books_by_category |-> {}, books_by_author |-> {},
     users_by_id |-> {}, users_by_email |-> {},
     borrows_by_user |-> {}, borrows_by_book |-> {},
     active_borrows_by_user |-> {}]

\* INSERT: a row with the same primary key is overwritten (upsert).
Insert(table, key, row) ==
    {r \in table : \E f \in key : r[f] # row[f]} \cup {row}

\* UPDATE ... SET changes WHERE key: the row with that key gets the changes; when
\* no such row exists one is created holding the key and the changes only.
Update(table, key, blank, changed) ==
    IF \E r \in table : \A f \in key : r[f] = blank[f]
    THEN {IF \A f \in key : r[f] = blank[f]
          THEN [f \in DOMAIN r |-> IF f \in DOMAIN changed THEN changed[f] ELSE r[f]]
          ELSE r : r \in table}
    ELSE table \cup
         {[f \in DOMAIN blank |-> IF f \in DOMAIN changed THEN changed[f] ELSE blank[f]]}

\* DELETE ... WHERE key
Delete(table, key, keyrow) ==
    {r \in table : \E f \in key : r[f] # keyrow[f]}

\* session.execute(select).one()
One(rows) == IF rows = {} THEN NoRow ELSE CHOOSE r \in rows : TRUE

(* ------------------------ models/book.py ------------------------------ *)
Book(isbn, title, author, category, total, avail) ==
    [isbn |-> isbn, title |-> title, author |-> author, category |-> category,
     total_copies |-> total, available_copies |-> avail]

ins_by_id(d, b) ==
    [d EXCEPT !.books_by_id = Insert(@, {"isbn"}, b)]

\* Mutant of ins_by_category: the two copy counts are bound in the other order.
ins_by_category_swapped(d, b) ==
    [d EXCEPT !.books_by_category = Insert(@, {"category", "title", "isbn"},
        [category |-> b.category, title |-> b.title, isbn |-> b.isbn,
         author |-> b.author, available_copies |-> b.total_copies,
         total_copies |-> b.available_copies])]

ins_by_category(d, b) ==
    [d EXCEPT !.books_by_category = Insert(@, {"category", "title", "isbn"},
        [category |-> b.category, title |-> b.title, isbn |-> b.isbn,
         author |-> b.author, available_copies |-> b.available_copies,
         total_copies |-> b.total_copies])]

ins_by_author(d, b) ==
    [d EXCEPT !.books_by_author = Insert(@, {"author", "title", "isbn"},
        [author |-> b.author, title |-> b.title, isbn |-> b.isbn,
         category |-> b.category, available_copies |-> b.available_copies,
         total_copies |-> b.total_copies])]

get_book_by_isbn(d, isbn) == One({r \in d.books_by_id : r.isbn = isbn})

(* ------------------------ models/user.py ------------------------------ *)
ins_user(d, user_id, email, first_name, last_name) ==
    [d EXCEPT !.users_by_id = Insert(@, {"user_id"},
        [user_id |-> user_id, email |-> email, first_name |-> first_name,
         last_name |-> last_name, total_borrows |-> 0, active_borrows |-> 0])]

\* Mutant of insert_user_by_email: INSERT ... IF NOT EXISTS, the first row of
\* an email stays.
insert_user_by_email_if_absent(d, user_id, email, first_name, last_name) ==
    IF \E r \in d.users_by_email : r.email = email
    THEN d
    ELSE [d EXCEPT !.users_by_email = @ \cup
            {[email |-> email, user_id |-> user_id, first_name |-> first_name,
              last_name |-> last_name]}]

insert_user_by_email(d, user_id, email, first_name, last_name) ==
    [d EXCEPT !.users_by_email = Insert(@, {"email"},
        [email |-> email, user_id |-> user_id, first_name |-> first_name,
         last_name |-> last_name])]

(* ------------------------ models/borrow.py: statements ---------------- *)
sel_book(d, isbn) == One({r \in d.books_by_id : r.isbn = isbn})

sel_user(d, user_id) == One({r \in d.users_by_id : r.user_id = user_id})

\* Mutant of sel_active_by_user: the partition key is ignored (full scan).
sel_active_all_partitions(d, user_id) == d.active_borrows_by_user

sel_active_by_user(d, user_id) ==
    {r \in d.active_borrows_by_user : r.user_id = user_id}

\* Mutant of upd_book_copies: the WHERE clause is missing, every book is set.
upd_book_copies_all_books(d, new_avail, isbn) ==
    [d EXCEPT !.books_by_id = {[r EXCEPT !.available_copies = new_avail] : r \in @}]

upd_book_copies(d, new_avail, isbn) ==
    [d EXCEPT !.books_by_id = Update(@, {"isbn"},
        Book(isbn, None, None, None, NoneInt, NoneInt),
        [available_copies |-> new_avail])]

\* Mutant of upd_book_cat_copies: the view is set one copy below new_avail.
upd_book_cat_copies_one_less(d, new_avail, category, title, isbn) ==
    [d EXCEPT !.books_by_category = Update(@, {"category", "title", "isbn"},
        [category |-> category, title |-> title, isbn |-> isbn, author |-> None,
         available_copies |-> NoneInt, total_copies |-> NoneInt],
        [available_copies |-> new_avail - 1])]

upd_book_cat_copies(d, new_avail, category, title, isbn) ==
    [d EXCEPT !.books_by_category = Update(@, {"category", "title", "isbn"},
        [category |-> category, title |-> title, isbn |-> isbn, author |-> None,
         available_copies |-> NoneInt, total_copies |-> NoneInt],
        [available_copies |-> new_avail])]

\* Mutant of upd_book_author_copies: author and title are bound in the wrong order.
upd_book_author_copies_swapped(d, new_avail, author, title, isbn) ==
    [d EXCEPT !.books_by_author = Update(@, {"author", "title", "isbn"},
        [author |-> title, title |-> author, isbn |-> isbn, category |-> None,
         available_copies |-> NoneInt, total_copies |-> NoneInt],
        [available_copies |-> new_avail])]

upd_book_author_copies(d, new_avail, author, title, isbn) ==
    [d EXCEPT !.books_by_author = Update(@, {"author", "title", "isbn"},
        [author |-> author, title |-> title, isbn |-> isbn, category |-> None,
         available_copies |-> NoneInt, total_copies |-> NoneInt],
        [available_copies |-> new_avail])]

\* Mutant of upd_user_counts: total_borrows is stored one too high.
upd_user_counts_one_more(d, total_b, active_b, user_id) ==
    [d EXCEPT !.users_by_id = Update(@, {"user_id"},
        [user_id |-> user_id, email |-> None, first_name |-> None,
         last_name |-> None, total_borrows |-> NoneInt, active_borrows |-> NoneInt],
        [total_borrows |-> total_b + 1, active_borrows |-> active_b])]

upd_user_counts(d, total_b, active_b, user_id) ==
    [d EXCEPT !.users_by_id = Update(@, {"user_id"},
        [user_id |-> user_id, email |-> None, first_name |-> None,
         last_name |-> None, total_borrows |-> NoneInt, active_borrows |-> NoneInt],
        [total_borrows |-> total_b, active_borrows |-> active_b])]

ins_borrow_user(d, user_id, borrow_date, isbn, book_title, status, due, return_date) ==
    [d EXCEPT !.borrows_by_user = Insert(@, {"user_id", "borrow_date", "isbn"},
        [user_id |-> user_id, borrow_date |-> borrow_date, isbn |-> isbn,
         book_title |-> book_title, status |-> status, due_date |-> due,
         return_date |-> return_date])]

\* Mutant of ins_borrow_book: the loan start is not part of the key, so a
\* patron's new loan of a book replaces the earlier one.
ins_borrow_book_one_per_patron(d, isbn, borrow_date, user_id, user_name, status, due, return_date, book_title) ==
    [d EXCEPT !.borrows_by_book = Insert(@, {"isbn", "user_id"},
        [isbn |-> isbn, borrow_date |-> borrow_date, user_id |-> user_id,
         user_name |-> user_name, status |-> status, due_date |-> due,
         return_date |-> return_date, book_title |-> book_title])]

ins_borrow_book(d, isbn, borrow_date, user_id, user_name, status, due, return_date, book_title) ==
    [d EXCEPT !.borrows_by_book = Insert(@, {"isbn", "borrow_date", "user_id"},
        [isbn |-> isbn, borrow_date |-> borrow_date, user_id |-> user_id,
         user_name |-> user_name, status |-> status, due_date |-> due,
         return_date |-> return_date, book_title |-> book_title])]

\* Mutant of ins_active: the loan start is not part of the key, so a patron
\* has one active row per ISBN.
ins_active_one_per_isbn(d, user_id, borrow_date, isbn, book_title, due) ==
    [d EXCEPT !.active_borrows_by_user = Insert(@, {"user_id", "isbn"},
        [user_id |-> user_id, borrow_date |-> borrow_date, isbn |-> isbn,
         book_title |-> book_title, due_date |-> due])]

ins_active(d, user_id, borrow_date, isbn, book_title, due) ==
    [d EXCEPT !.active_borrows_by_user = Insert(@, {"user_id", "borrow_date", "isbn"},
        [user_id |-> user_id, borrow_date |-> borrow_date, isbn |-> isbn,
         book_title |-> book_title, due_date |-> due])]

\* Mutant of del_active: the whole partition of the patron is deleted.
del_active_partition(d, user_id, borrow_date, isbn) ==
    [d EXCEPT !.active_borrows_by_user = {r \in @ : r.user_id # user_id}]

\* Mutant of del_active: the active-loan row is not deleted.
del_active_noop(d, user_id, borrow_date, isbn) == d

del_active(d, user_id, borrow_date, isbn) ==
    [d EXCEPT !.active_borrows_by_user = Delete(@, {"user_id", "borrow_date", "isbn"},
        [user_id |-> user_id, borrow_date |-> borrow_date, isbn |-> isbn])]

\* Mutant of upd_borrow_user_return: the row is addressed by the return
\* timestamp instead of the loan-start timestamp.
upd_borrow_user_return_by_now(d, status, return_date, user_id, borrow_date, isbn) ==
    [d EXCEPT !.borrows_by_user = Update(@, {"user_id", "borrow_date", "isbn"},
        [user_id |-> user_id, borrow_date |-> return_date, isbn |-> isbn,
         book_title |-> None, status |-> None, due_date |-> NoneInt,
         return_date |-> NoneInt],
        [status |-> status, return_date |-> return_date])]

\* Mutant of upd_borrow_user_return: the loan start is not part of the WHERE
\* clause, so every loan of the ISBN by the patron is closed.
upd_borrow_user_return_all_loans(d, status, return_date, user_id, borrow_date, isbn) ==
    [d EXCEPT !.borrows_by_user = Update(@, {"user_id", "isbn"},
        [user_id |-> user_id, borrow_date |-> borrow_date, isbn |-> isbn,
         book_title |-> None, status |-> None, due_date |-> NoneInt,
         return_date |-> NoneInt],
        [status |-> status, return_date |-> return_date])]

upd_borrow_user_return(d, status, return_date, user_id, borrow_date, isbn) ==
    [d EXCEPT !.borrows_by_user = Update(@, {"user_id", "borrow_date", "isbn"},
        [user_id |-> user_id, borrow_date |-> borrow_date, isbn |-> isbn,
         book_title |-> None, status |-> None, due_date |-> NoneInt,
         return_date |-> NoneInt],
        [status |-> status, return_date |-> return_date])]

\* Mutant of upd_borrow_book_return: the return date is not written.
upd_borrow_book_return_no_date(d, status, return_date, isbn, borrow_date, user_id) ==
    [d EXCEPT !.borrows_by_book = Update(@, {"isbn", "borrow_date", "user_id"},
        [isbn |-> isbn, borrow_date |-> borrow_date, user_id |-> user_id,
         user_name |-> NoName, status |-> None, due_date |-> NoneInt,
         return_date |-> NoneInt, book_title |-> None],
        [status |-> status])]

upd_borrow_book_return(d, status, return_date, isbn, borrow_date, user_id) ==
    [d EXCEPT !.borrows_by_book = Update(@, {"isbn", "borrow_date", "user_id"},
        [isbn |-> isbn, borrow_date |-> borrow_date, user_id |-> user_id,
         user_name |-> NoName, status |-> None, due_date |-> NoneInt,
         return_date |-> NoneInt, book_title |-> None],
        [status |-> status, return_date |-> return_date])]


(* ------------------------ models/borrow.py: locals -------------------- *)
\* x or 0
OrZero(v) == IF v = NoneInt THEN 0 ELSE v

\* f"{user.first_name} {user.last_name}".strip()
UserName(user) == <<user.first_name, user.last_name>>

\* Mutant of Due: the loan period is added as ticks, not as days.
DueNotInDays(now, loan_days) == now + loan_days

\* now + timedelta(days=loan_days)
Due(now, loan_days) == now + loan_days * TicksPerDay

\* Mutant of NoCopyLeft: the last copy is never lent (<= 1).
NoCopyLeftKeepsOne(book) == book.available_copies = NoneInt \/ book.available_copies <= 1

\* Mutant of NoCopyLeft: the comparison is off by one (< 0).
NoCopyLeftOffByOne(book) == book.available_copies = NoneInt \/ book.available_copies < 0

\* book.available_copies is None or book.available_copies <= 0
NoCopyLeft(book) == book.available_copies = NoneInt \/ book.available_copies <= 0

\* Mutant of NewAvailBorrow: the decrement is missing.
NewAvailBorrowNoDecrement(book) == book.available_copies

\* new_avail = int(book.available_copies) - 1
NewAvailBorrow(book) == book.available_copies - 1

\* Mutant of NewAvailReturn: the clamp lets one copy too many through.
NewAvailReturnClampOffByOne(book) ==
    LET n == OrZero(book.available_copies) + 1
    IN  IF book.total_copies # NoneInt
        THEN (IF n < book.total_copies + 1 THEN n ELSE book.total_copies + 1)
        ELSE n

\* Mutant of NewAvailReturn: a return adds two copies.
NewAvailReturnByTwo(book) ==
    LET n == OrZero(book.available_copies) + 2
    IN  IF book.total_copies # NoneInt
        THEN (IF n < book.total_copies THEN n ELSE book.total_copies)
        ELSE n

\* Mutant of NewAvailReturn: a return refills the book to total_copies.
NewAvailReturnToTotal(book) == book.total_copies

\* Mutant of NewAvailReturn: the clamp to total_copies is missing.
NewAvailReturnNoClamp(book) == OrZero(book.available_copies) + 1

\* new_avail = int(book.available_copies or 0) + 1, clamped to total_copies if present
NewAvailReturn(book) ==
    LET n == OrZero(book.available_copies) + 1
    IN  IF book.total_copies # NoneInt
        THEN (IF n < book.total_copies THEN n ELSE book.total_copies)
        ELSE n

\* for r in active_rows: if r.isbn == isbn: match = r; break
\* The rows a scan of the partition can meet first: the order of the rows is
\* the table's clustering order, which the repository does not fix, so any
\* row of the ISBN can be the match.
Match(active_rows, isbn) ==
    LET hits == {r \in active_rows : r.isbn = isbn}
    IN  IF hits = {} THEN {NoRow} ELSE hits

\* The statements of the try block of borrow_book, in program order.
BorrowPlan ==
    <<"upd_book_copies", "upd_book_cat_copies", "upd_book_author_copies",
      "ins_borrow_user", "ins_borrow_book", "ins_active", "upd_user_counts">>

\* The statements of the try block of return_book, in program order.
ReturnPlan ==
    <<"upd_book_copies", "upd_book_cat_copies", "upd_book_author_copies",
      "upd_borrow_user_return", "upd_borrow_book_return", "del_active",
      "upd_user_counts">>

\* The k-th write of borrow_book on tables d, for call c with locals l.
BorrowWrite(k, d, c, l) ==
    CASE k = 1 -> upd_book_copies(d, NewAvailBorrow(l.book), c.isbn)
      [] k = 2 -> upd_book_cat_copies(d, NewAvailBorrow(l.book), l.book.category,
                                      l.book.title, c.isbn)
      [] k = 3 -> upd_book_author_copies(d, NewAvailBorrow(l.book), l.book.author,
                                         l.book.title, c.isbn)
      [] k = 4 -> ins_borrow_user(d, c.user_id, l.now, c.isbn, l.book.title,
                                  "BORROWED", l.due, NoneInt)
      [] k = 5 -> ins_borrow_book(d, c.isbn, l.now, c.user_id, UserName(l.user),
                                  "BORROWED", l.due, NoneInt, l.book.title)
      [] k = 6 -> ins_active(d, c.user_id, l.now, c.isbn, l.book.title, l.due)
      [] k = 7 -> upd_user_counts(d, OrZero(l.user.total_borrows) + 1,
                                  OrZero(l.user.active_borrows) + 1, c.user_id)

\* Mutant of ActiveAfterReturn: the floor at 0 is missing.
ActiveAfterReturnNoFloor(user) == OrZero(user.active_borrows) - 1

\* Mutant of ActiveAfterReturn: the counter is not decremented.
ActiveAfterReturnNoDecrement(user) == OrZero(user.active_borrows)

\* max(0, int(user.active_borrows or 0) - 1)
ActiveAfterReturn(user) ==
    IF OrZero(user.active_borrows) - 1 > 0 THEN OrZero(user.active_borrows) - 1 ELSE 0

\* The k-th write of return_book on tables d, for call c with locals l.
ReturnWrite(k, d, c, l) ==
    CASE k = 1 -> upd_book_copies(d, NewAvailReturn(l.book), c.isbn)
      [] k = 2 -> upd_book_cat_copies(d, NewAvailReturn(l.book), l.book.category,
                                      l.book.title, c.isbn)
      [] k = 3 -> upd_book_author_copies(d, NewAvailReturn(l.book), l.book.author,
                                         l.book.title, c.isbn)
      [] k = 4 -> upd_borrow_user_return(d, "RETURNED", l.now, c.user_id,
                                         l.match.borrow_date, c.isbn)
      [] k = 5 -> upd_borrow_book_return(d, "RETURNED", l.now, c.isbn,
                                         l.match.borrow_date, c.user_id)
      [] k = 6 -> del_active(d, c.user_id, l.match.borrow_date, c.isbn)
      [] k = 7 -> upd_user_counts(d, OrZero(l.user.total_borrows),
                                  ActiveAfterReturn(l.user), c.user_id)

(* ------------------------------ state --------------------------------- *)
NoCall == [op |-> "none", user_id |-> None, isbn |-> None, loan_days |-> 0]
NoLoc == [book |-> NoRow, user |-> NoRow, match |-> NoRow, now |-> NoneInt,
          due |-> NoneInt]
NoResult == [ok |-> FALSE, message |-> <<"", "">>]
NoSnap == [db |-> EmptyDb, returned |-> {}, closed |-> {}, loc |-> NoLoc,
           before |-> NoRow]
BorrowResult(ok, text, cause) == [ok |-> ok, message |-> <<text, cause>>]

Init ==
    /\ db = EmptyDb
    /\ clock = 0
    /\ pc = [p \in Procs |-> "idle"]
    /\ call = [p \in Procs |-> NoCall]
    /\ loc = [p \in Procs |-> NoLoc]
    /\ result = [p \in Procs |-> NoResult]
    /\ snap = [p \in Procs |-> NoSnap]
    /\ applied = [p \in Procs |-> <<>>]
    /\ wfail = 0
    /\ returned = {}
    /\ closed = {}

\* The caller p leaves with BorrowResult r; l are its locals at that point.
Return(p, r, l) ==
    /\ pc' = [pc EXCEPT ![p] = "done"]
    /\ result' = [result EXCEPT ![p] = r]
    /\ loc' = [loc EXCEPT ![p] = NoLoc]
    /\ snap' = [snap EXCEPT ![p].loc = l]

(* ------------------------ BookRepository.add_book --------------------- *)
add_book(d, b) == ins_by_author(ins_by_category(ins_by_id(d, b), b), b)

AddBook(b) ==
    /\ db' = add_book(db, b)
    /\ UNCHANGED <<clock, pc, call, loc, result, snap, applied, wfail, returned, closed>>

(* ------------------------ UserRepository.create_user ------------------ *)
\* uuid4(): an identifier no patron has yet (the first unused of a fixed order).
UuidOrder == <<"u1", "u2">>
UsedIds(d) == {r.user_id : r \in d.users_by_id}
FreshIds(d) == {i \in 1..Len(UuidOrder) : UuidOrder[i] \notin UsedIds(d)}
uuid4(d) == UuidOrder[CHOOSE i \in FreshIds(d) : \A j \in FreshIds(d) : i <= j]

create_user(d, user_id, email, first_name, last_name) ==
    insert_user_by_email(ins_user(d, user_id, email, first_name, last_name),
                         user_id, email, first_name, last_name)

CreateUser(email) ==
    /\ FreshIds(db) # {}
    /\ db' = create_user(db, uuid4(db), email, "fn", "ln")
    /\ UNCHANGED <<clock, pc, call, loc, result, snap, applied, wfail, returned, closed>>

(* ------------------------ BorrowRepository.borrow_book ---------------- *)
\* Call c is a Return that caller p makes right after its own Borrow of the same
\* ISBN for the same patron returned ok=true (scripts/test_borrows.py).
Follows(p, c) ==
    /\ c.op = "return"
    /\ pc[p] = "done" /\ call[p].op = "borrow"
    /\ result[p].ok
    /\ call[p].user_id = c.user_id /\ call[p].isbn = c.isbn

Begin(p, c) ==
    /\ pc[p] \in {"idle", "done", "raised"}
    /\ clock < MaxClock
    /\ call' = [call EXCEPT ![p] = c]
    /\ loc' = [loc EXCEPT ![p] = NoLoc]
    /\ result' = [result EXCEPT ![p] = NoResult]
    /\ snap' = [snap EXCEPT ![p] = IF p \in SerialProcs
                                   THEN [db |-> db, returned |-> returned,
                                         closed |-> closed, loc |-> NoLoc,
                                         before |-> IF Follows(p, c) THEN snap[p].db
                                                    ELSE NoRow]
                                   ELSE NoSnap]
    /\ applied' = [applied EXCEPT ![p] = <<>>]
    /\ UNCHANGED <<db, clock, wfail>>

BeginBorrow(p, user_id, isbn, loan_days) ==
    /\ Begin(p, [op |-> "borrow", user_id |-> user_id, isbn |-> isbn,
                 loan_days |-> loan_days])
    /\ pc' = [pc EXCEPT ![p] = "b_sel_book"]
    /\ returned' = returned \ {<<user_id, isbn>>}
    /\ closed' = closed \ {<<user_id, isbn>>}

\* Mutant of BorrowSelBook: the patron is looked up and checked before the book.
BorrowSelBookPatronFirst(p) ==
    /\ pc[p] = "b_sel_book"
    /\ LET book == sel_book(db, call[p].isbn)
           user == sel_user(db, call[p].user_id)
           l == [loc[p] EXCEPT !.book = book]
       IN  IF user = NoRow
           THEN Return(p, BorrowResult(FALSE, "Utilisateur introuvable", ""), l)
           ELSE IF book = NoRow
           THEN Return(p, BorrowResult(FALSE, "Livre introuvable", ""), l)
           ELSE IF NoCopyLeft(book)
           THEN Return(p, BorrowResult(FALSE, "Aucune copie disponible", ""), l)
           ELSE /\ pc' = [pc EXCEPT ![p] = "b_sel_user"]
                /\ loc' = [loc EXCEPT ![p] = l]
                /\ UNCHANGED <<result, snap>>
    /\ UNCHANGED <<db, clock, call, applied, wfail, returned, closed>>

\* book = session.execute(_sel_book).one(); the two book checks
BorrowSelBook(p) ==
    /\ pc[p] = "b_sel_book"
    /\ LET book == sel_book(db, call[p].isbn)
           l == [loc[p] EXCEPT !.book = book]
       IN  IF book = NoRow
           THEN Return(p, BorrowResult(FALSE, "Livre introuvable", ""), l)
           ELSE IF NoCopyLeft(book)
           THEN Return(p, BorrowResult(FALSE, "Aucune copie disponible", ""), l)
           ELSE /\ pc' = [pc EXCEPT ![p] = "b_sel_user"]
                /\ loc' = [loc EXCEPT ![p] = l]
                /\ UNCHANGED <<result, snap>>
    /\ UNCHANGED <<db, clock, call, applied, wfail, returned, closed>>

\* Mutant of BorrowSelUser: the copy count is written before the patron check.
BorrowSelUserAfterWrite(p) ==
    /\ pc[p] = "b_sel_user"
    /\ db' = upd_book_copies(db, NewAvailBorrow(loc[p].book), call[p].isbn)
    /\ LET user == sel_user(db, call[p].user_id)
           l == [loc[p] EXCEPT !.user = user]
       IN  IF user = NoRow
           THEN Return(p, BorrowResult(FALSE, "Utilisateur introuvable", ""), l)
           ELSE /\ pc' = [pc EXCEPT ![p] = "b_now"]
                /\ loc' = [loc EXCEPT ![p] = l]
                /\ UNCHANGED <<result, snap>>
    /\ UNCHANGED <<clock, call, applied, wfail, returned, closed>>

\* Mutant of BorrowSelUser: the loan is entered in borrows_by_user before the
\* patron check.
BorrowSelUserAfterInsert(p) ==
    /\ pc[p] = "b_sel_user"
    /\ db' = ins_borrow_user(db, call[p].user_id, clock, call[p].isbn,
                             loc[p].book.title, "BORROWED",
                             Due(clock, call[p].loan_days), NoneInt)
    /\ LET user == sel_user(db, call[p].user_id)
           l == [loc[p] EXCEPT !.user = user]
       IN  IF user = NoRow
           THEN Return(p, BorrowResult(FALSE, "Utilisateur introuvable", ""), l)
           ELSE /\ pc' = [pc EXCEPT ![p] = "b_now"]
                /\ loc' = [loc EXCEPT ![p] = l]
                /\ UNCHANGED <<result, snap>>
    /\ UNCHANGED <<clock, call, applied, wfail, returned, closed>>

\* user = session.execute(_sel_user).one(); the patron check
BorrowSelUser(p) ==
    /\ pc[p] = "b_sel_user"
    /\ LET user == sel_user(db, call[p].user_id)
           l == [loc[p] EXCEPT !.user = user]
       IN  IF user = NoRow
           THEN Return(p, BorrowResult(FALSE, "Utilisateur introuvable", ""), l)
           ELSE /\ pc' = [pc EXCEPT ![p] = "b_now"]
                /\ loc' = [loc EXCEPT ![p] = l]
                /\ UNCHANGED <<result, snap>>
    /\ UNCHANGED <<db, clock, call, applied, wfail, returned, closed>>

\* now = datetime.now(timezone.utc); due = now + timedelta(days=loan_days)
BorrowNow(p) ==
    /\ pc[p] = "b_now"
    /\ loc' = [loc EXCEPT ![p].now = clock, ![p].due = Due(clock, call[p].loan_days)]
    /\ pc' = [pc EXCEPT ![p] = "b_try"]
    /\ UNCHANGED <<db, clock, call, result, snap, applied, wfail, returned, closed>>

\* Mutant of Tick: the clock stands still, so every call reads the same now.
TickStandsStill(p) == clock

\* Time passes while the first write travels to the database.
Tick(p) == IF applied[p] = <<>> THEN clock + 1 ELSE clock

\* Mutant of BorrowWriteOk: the loan rows are written before the copy counts.
BorrowWriteOkLoanFirst(p) ==
    /\ pc[p] = "b_try"
    /\ LET k == Len(applied[p]) + 1
           j == IF k <= 3 THEN k + 3 ELSE IF k <= 6 THEN k - 3 ELSE k
       IN  /\ db' = BorrowWrite(j, db, call[p], loc[p])
           /\ applied' = [applied EXCEPT ![p] = Append(@, BorrowPlan[j])]
           /\ IF k = Len(BorrowPlan)
              THEN Return(p, BorrowResult(TRUE, "Emprunt effectué", ""), loc[p])
              ELSE UNCHANGED <<pc, result, loc, snap>>
    /\ clock' = Tick(p)
    /\ UNCHANGED <<call, wfail, returned, closed>>

\* The next statement of the try block executes; after the last one the call
\* returns BorrowResult(True, "Emprunt effectué").
BorrowWriteOk(p) ==
    /\ pc[p] = "b_try"
    /\ LET k == Len(applied[p]) + 1
       IN  /\ db' = BorrowWrite(k, db, call[p], loc[p])
           /\ applied' = [applied EXCEPT ![p] = Append(@, BorrowPlan[k])]
           /\ IF k = Len(BorrowPlan)
              THEN Return(p, BorrowResult(TRUE, "Emprunt effectué", ""), loc[p])
              ELSE UNCHANGED <<pc, result, loc, snap>>
    /\ clock' = Tick(p)
    /\ UNCHANGED <<call, wfail, returned, closed>>

\* The next statement raises: except Exception as e -> BorrowResult(False, ...)
BorrowWriteFails(p, e) ==
    /\ pc[p] = "b_try"
    /\ Return(p, BorrowResult(FALSE, "Erreur emprunt", e), loc[p])
    /\ clock' = Tick(p)
    /\ wfail < MaxFailures
    /\ wfail' = wfail + 1
    /\ UNCHANGED <<db, call, applied, returned, closed>>


(* ------------------------ BorrowRepository.return_book ---------------- *)
BeginReturn(p, user_id, isbn) ==
    /\ Begin(p, [op |-> "return", user_id |-> user_id, isbn |-> isbn, loan_days |-> 0])
    /\ pc' = [pc EXCEPT ![p] = "r_sel_active"]
    /\ UNCHANGED <<returned, closed>>

\* active_rows = list(session.execute(_sel_active_by_user)); the scan for the ISBN
ReturnSelActive(p) ==
    /\ pc[p] = "r_sel_active"
    /\ \E match \in Match(sel_active_by_user(db, call[p].user_id), call[p].isbn) :
       LET l == [loc[p] EXCEPT !.match = match]
       IN  IF match = NoRow
           THEN Return(p, BorrowResult(FALSE, "Aucun emprunt actif trouvé pour ce livre", ""), l)
           ELSE /\ pc' = [pc EXCEPT ![p] = "r_sel_book"]
                /\ loc' = [loc EXCEPT ![p] = l]
                /\ UNCHANGED <<result, snap>>
    /\ UNCHANGED <<db, clock, call, applied, wfail, returned, closed>>

\* Mutant of ReturnSelBook: the patron is looked up and checked before the book.
ReturnSelBookPatronFirst(p) ==
    /\ pc[p] = "r_sel_book"
    /\ LET book == sel_book(db, call[p].isbn)
           user == sel_user(db, call[p].user_id)
           l == [loc[p] EXCEPT !.book = book]
       IN  IF user = NoRow
           THEN Return(p, BorrowResult(FALSE, "Utilisateur introuvable", ""), l)
           ELSE IF book = NoRow
           THEN Return(p, BorrowResult(FALSE, "Livre introuvable (books_by_id)", ""), l)
           ELSE /\ pc' = [pc EXCEPT ![p] = "r_sel_user"]
                /\ loc' = [loc EXCEPT ![p] = l]
                /\ UNCHANGED <<result, snap>>
    /\ UNCHANGED <<db, clock, call, applied, wfail, returned, closed>>

\* book = session.execute(_sel_book).one()
ReturnSelBook(p) ==
    /\ pc[p] = "r_sel_book"
    /\ LET book == sel_book(db, call[p].isbn)
           l == [loc[p] EXCEPT !.book = book]
       IN  IF book = NoRow
           THEN Return(p, BorrowResult(FALSE, "Livre introuvable (books_by_id)", ""), l)
           ELSE /\ pc' = [pc EXCEPT ![p] = "r_sel_user"]
                /\ loc' = [loc EXCEPT ![p] = l]
                /\ UNCHANGED <<result, snap>>
    /\ UNCHANGED <<db, clock, call, applied, wfail, returned, closed>>

\* user = session.execute(_sel_user).one()
ReturnSelUser(p) ==
    /\ pc[p] = "r_sel_user"
    /\ LET user == sel_user(db, call[p].user_id)
           l == [loc[p] EXCEPT !.user = user]
       IN  IF user = NoRow
           THEN Return(p, BorrowResult(FALSE, "Utilisateur introuvable", ""), l)
           ELSE /\ pc' = [pc EXCEPT ![p] = "r_now"]
                /\ loc' = [loc EXCEPT ![p] = l]
                /\ UNCHANGED <<result, snap>>
    /\ UNCHANGED <<db, clock, call, applied, wfail, returned, closed>>

\* now = datetime.now(timezone.utc)
ReturnNow(p) ==
    /\ pc[p] = "r_now"
    /\ loc' = [loc EXCEPT ![p].now = clock]
    /\ pc' = [pc EXCEPT ![p] = "r_try"]
    /\ UNCHANGED <<db, clock, call, result, snap, applied, wfail, returned, closed>>

\* The open loans of ISBN isbn in the patron's active-loan partition.
OpenLoans(d, user_id, isbn) ==
    {r \in d.active_borrows_by_user : r.user_id = user_id /\ r.isbn = isbn}

\* The next statement of the try block executes; after the last one the call
\* returns BorrowResult(True, "Livre retourné").
ReturnWriteOk(p) ==
    /\ pc[p] = "r_try"
    /\ LET k == Len(applied[p]) + 1
           pair == <<call[p].user_id, call[p].isbn>>
       IN  /\ db' = ReturnWrite(k, db, call[p], loc[p])
           /\ applied' = [applied EXCEPT ![p] = Append(@, ReturnPlan[k])]
           /\ IF k = Len(ReturnPlan)
              THEN /\ Return(p, BorrowResult(TRUE, "Livre retourné", ""), loc[p])
                   /\ returned' = returned \cup {pair}
                   /\ closed' = IF OpenLoans(db', pair[1], pair[2]) = {}
                                THEN closed \cup {pair} ELSE closed \ {pair}
              ELSE UNCHANGED <<pc, result, loc, snap, returned, closed>>
    /\ clock' = Tick(p)
    /\ UNCHANGED <<call, wfail>>

\* Mutant of ReturnWriteFails: the handler undoes the writes already applied.
ReturnWriteFailsRollsBack(p, e) ==
    /\ pc[p] = "r_try"
    /\ Return(p, BorrowResult(FALSE, "Erreur retour", e), loc[p])
    /\ clock' = Tick(p)
    /\ wfail < MaxFailures
    /\ wfail' = wfail + 1
    /\ db' = snap[p].db
    /\ UNCHANGED <<call, applied, returned, closed>>

\* The next statement raises: except Exception as e -> BorrowResult(False, ...)
ReturnWriteFails(p, e) ==
    /\ pc[p] = "r_try"
    /\ Return(p, BorrowResult(FALSE, "Erreur retour", e), loc[p])
    /\ clock' = Tick(p)
    /\ wfail < MaxFailures
    /\ wfail' = wfail + 1
    /\ UNCHANGED <<db, call, applied, returned, closed>>

(* ------------------------ specifications ------------------------------ *)
\* Mutant of SetupBooks: a book can be added with one copy more available than
\* it has in total.
SetupBooksOverstocked ==
    {b \in [isbn : SetupIsbns, title : {"t1"}, author : {"a1"}, category : {"c1"},
            total_copies : 1..MaxCopies, available_copies : 0..(MaxCopies + 1)] :
        b.available_copies <= b.total_copies + 1}

\* The books the set-up adds: available_copies within 0..total_copies.
SetupBooks ==
    {b \in [isbn : SetupIsbns, title : {"t1"}, author : {"a1"}, category : {"c1"},
            total_copies : 1..MaxCopies, available_copies : 0..MaxCopies] :
        b.available_copies <= b.total_copies}

\* No borrow or return call has begun yet.
SettingUp == \A p \in Procs : pc[p] = "idle"

\* One statement of the call in progress of caller p.
Step(p) ==
    \/ BorrowSelBook(p)
    \/ BorrowSelUser(p)
    \/ BorrowNow(p)
    \/ BorrowWriteOk(p)
    \/ ReturnSelActive(p)
    \/ ReturnSelBook(p)
    \/ ReturnSelUser(p)
    \/ ReturnNow(p)
    \/ ReturnWriteOk(p)

\* A single thread of control: books and patrons are set up (each ISBN added
\* once), then borrow and return calls run one after the other; any write
\* statement may raise.
Next ==
    \/ \E b \in SetupBooks :
          SettingUp /\ get_book_by_isbn(db, b.isbn) = NoRow /\ AddBook(b)
    \/ \E email \in Emails :
          SettingUp /\ (\A r \in db.users_by_email : r.email # email) /\ CreateUser(email)
    \/ \E p \in SerialProcs, u \in UserIds, x \in Isbns, days \in LoanDayChoices :
          BeginBorrow(p, u, x, days)
    \/ \E p \in SerialProcs, u \in UserIds, x \in Isbns : BeginReturn(p, u, x)
    \/ \E p \in SerialProcs : Step(p)
    \/ \E p \in SerialProcs, e \in Causes : BorrowWriteFails(p, e)
    \/ \E p \in SerialProcs, e \in Causes : ReturnWriteFails(p, e)

Spec == Init /\ [][Next]_vars


\* Callers that share the session and are not coordinated: after the set-up,
\* the statements of their calls interleave freely; no statement raises.
NextConc ==
    \/ \E b \in SetupBooks :
          SettingUp /\ get_book_by_isbn(db, b.isbn) = NoRow /\ AddBook(b)
    \/ \E email \in Emails :
          SettingUp /\ (\A r \in db.users_by_email : r.email # email) /\ CreateUser(email)
    \/ \E p \in ConcProcs, u \in UserIds, x \in SetupIsbns, days \in LoanDayChoices :
          clock < MaxConcClock /\ BeginBorrow(p, u, x, days)
    \/ \E p \in ConcProcs, u \in UserIds, x \in SetupIsbns :
          clock < MaxConcClock /\ BeginReturn(p, u, x)
    \/ \E p \in ConcProcs : Step(p)

ConcSpec == Init /\ [][NextConc]_vars

\* The loan periods concurrent callers ask for: the default and a shorter one
\* (the --days option of the command line).
ConcLoanDays == {DefaultLoanDays, DefaultLoanDays - 7}

\* Uncoordinated callers that borrow, asking for different loan periods.
NextConcDays ==
    \/ \E b \in SetupBooks :
          SettingUp /\ get_book_by_isbn(db, b.isbn) = NoRow /\ AddBook(b)
    \/ \E email \in Emails :
          SettingUp /\ (\A r \in db.users_by_email : r.email # email) /\ CreateUser(email)
    \/ \E p \in ConcProcs, u \in UserIds, x \in SetupIsbns, days \in ConcLoanDays :
          clock < MaxConcClock /\ BeginBorrow(p, u, x, days)
    \/ \E p \in ConcProcs :
          BorrowSelBook(p) \/ BorrowSelUser(p) \/ BorrowNow(p) \/ BorrowWriteOk(p)

ConcDaysSpec == Init /\ [][NextConcDays]_vars

\* The rows borrow_book writes for a loan of ISBN isbn by patron user_id begun
\* at borrow_date.
LoanRows(d, user_id, isbn, borrow_date) ==
    LET due == Due(borrow_date, DefaultLoanDays)
        d1 == ins_borrow_user(d, user_id, borrow_date, isbn, "t1", "BORROWED", due, NoneInt)
        d2 == ins_borrow_book(d1, isbn, borrow_date, user_id, <<"fn", "ln">>,
                              "BORROWED", due, NoneInt, "t1")
    IN  ins_active(d2, user_id, borrow_date, isbn, "t1", due)

\* Tables as a session can find them. The keyspace holds no reference between
\* tables and is written by more than this repository, so a loan can be
\* present while the book row or the patron row it names is not.
FoundDbs ==
    {LET d0 == IF hasBook THEN add_book(EmptyDb, b) ELSE EmptyDb
         d1 == IF hasUser THEN create_user(d0, "u1", "e1", "fn", "ln") ELSE d0
         d2 == IF hasUser /\ hasLoan THEN upd_user_counts(d1, 1, 1, "u1") ELSE d1
     IN  IF hasLoan THEN LoanRows(d2, "u1", "x1", 0) ELSE d2 :
     b \in SetupBooks, hasBook \in BOOLEAN, hasUser \in BOOLEAN, hasLoan \in BOOLEAN}

\* The session opens on tables found as they are, after the loan they may hold.
InitFound ==
    /\ db \in FoundDbs
    /\ clock = 1
    /\ pc = [p \in Procs |-> "idle"]
    /\ call = [p \in Procs |-> NoCall]
    /\ loc = [p \in Procs |-> NoLoc]
    /\ result = [p \in Procs |-> NoResult]
    /\ snap = [p \in Procs |-> NoSnap]
    /\ applied = [p \in Procs |-> <<>>]
    /\ wfail = 0
    /\ returned = {}
    /\ closed = {}

\* A single thread of control on the tables found; no statement raises.
NextFound ==
    \/ \E p \in SerialProcs, u \in UserIds, x \in Isbns, days \in LoanDayChoices :
          BeginBorrow(p, u, x, days)
    \/ \E p \in SerialProcs, u \in UserIds, x \in Isbns : BeginReturn(p, u, x)
    \/ \E p \in SerialProcs : Step(p)

FoundSpec == InitFound /\ [][NextFound]_vars

(* ------------------------ repositories: calls and lookups ------------- *)
\* UserRepository.get_user
get_user(d, user_id) == One({r \in d.users_by_id : r.user_id = user_id})

\* UserRepository.get_user_id_by_email
get_user_id_by_email(d, email) ==
    LET row == One({r \in d.users_by_email : r.email = email})
    IN  IF row = NoRow THEN None ELSE row.user_id

\* UserRepository.set_counts
set_counts(d, user_id, total_borrows, active_borrows) ==
    [d EXCEPT !.users_by_id = Update(@, {"user_id"},
        [user_id |-> user_id, email |-> None, first_name |-> None,
         last_name |-> None, total_borrows |-> NoneInt, active_borrows |-> NoneInt],
        [total_borrows |-> total_borrows, active_borrows |-> active_borrows])]

\* BookRepository.get_books_by_category, get_books_by_author
get_books_by_category(d, category) ==
    {r \in d.books_by_category : r.category = category}

get_books_by_author(d, author) ==
    {r \in d.books_by_author : r.author = author}

\* Mutant of get_active_borrows_by_user: the WHERE clause is missing.
get_active_borrows_of_all(d, user_id) ==
    {[user_id |-> r.user_id, borrow_date |-> r.borrow_date, isbn |-> r.isbn,
      book_title |-> r.book_title, due_date |-> r.due_date] :
        r \in d.active_borrows_by_user}

\* BorrowRepository.get_active_borrows_by_user: the selected columns of the
\* rows of the patron's partition.
get_active_borrows_by_user(d, user_id) ==
    {[user_id |-> r.user_id, borrow_date |-> r.borrow_date, isbn |-> r.isbn,
      book_title |-> r.book_title, due_date |-> r.due_date] :
        r \in {a \in d.active_borrows_by_user : a.user_id = user_id}}

\* The call record of a repository call: what the borrow calls carry, and the
\* argument arg of this call.
RepoCall(op, user_id, isbn, arg) ==
    [op |-> op, user_id |-> user_id, isbn |-> isbn, loan_days |-> 0, arg |-> arg]

\* The exception e leaves the call of caller p: nothing is returned.
Raise(p, e) ==
    /\ pc' = [pc EXCEPT ![p] = "raised"]
    /\ result' = [result EXCEPT ![p] = [exception |-> e]]
    /\ loc' = [loc EXCEPT ![p] = NoLoc]
    /\ snap' = [snap EXCEPT ![p].loc = loc[p]]

\* add_book, statement by statement: the k-th INSERT of the try block.
AddBookPlan == <<"ins_by_id", "ins_by_category", "ins_by_author">>

AddBookWrite(k, d, b) ==
    CASE k = 1 -> ins_by_id(d, b)
      [] k = 2 -> ins_by_category(d, b)
      [] k = 3 -> ins_by_author(d, b)

BeginAddBook(p, b) ==
    /\ Begin(p, RepoCall("add_book", None, b.isbn, b))
    /\ pc' = [pc EXCEPT ![p] = "a_try"]
    /\ UNCHANGED <<returned, closed>>

AddBookWriteOk(p) ==
    /\ pc[p] = "a_try"
    /\ LET k == Len(applied[p]) + 1
       IN  /\ db' = AddBookWrite(k, db, call[p].arg)
           /\ applied' = [applied EXCEPT ![p] = Append(@, AddBookPlan[k])]
           /\ IF k = Len(AddBookPlan)
              THEN Return(p, TRUE, loc[p])
              ELSE UNCHANGED <<pc, result, loc, snap>>
    /\ UNCHANGED <<clock, call, wfail, returned, closed>>

\* The next INSERT of add_book raises: logged, False returned.
AddBookWriteFails(p, e) ==
    /\ pc[p] = "a_try"
    /\ wfail < MaxFailures
    /\ wfail' = wfail + 1
    /\ Return(p, FALSE, loc[p])
    /\ UNCHANGED <<db, clock, call, applied, returned, closed>>

\* create_user, statement by statement.
CreateUserPlan == <<"ins_user", "insert_user_by_email">>

CreateUserWrite(k, d, user_id, email) ==
    CASE k = 1 -> ins_user(d, user_id, email, "fn", "ln")
      [] k = 2 -> insert_user_by_email(d, user_id, email, "fn", "ln")

BeginCreateUser(p, email) ==
    /\ Begin(p, RepoCall("create_user", None, None, email))
    /\ pc' = [pc EXCEPT ![p] = "c_uuid"]
    /\ UNCHANGED <<returned, closed>>

\* user_id = uuid4(); registration_date = datetime.utcnow()
CreateUserUuid(p) ==
    /\ pc[p] = "c_uuid"
    /\ FreshIds(db) # {}
    /\ loc' = [loc EXCEPT ![p] = [user_id |-> uuid4(db), registration_date |-> clock]]
    /\ pc' = [pc EXCEPT ![p] = "c_try"]
    /\ UNCHANGED <<db, clock, call, result, snap, applied, wfail, returned, closed>>

CreateUserWriteOk(p) ==
    /\ pc[p] = "c_try"
    /\ LET k == Len(applied[p]) + 1
       IN  /\ db' = CreateUserWrite(k, db, loc[p].user_id, call[p].arg)
           /\ applied' = [applied EXCEPT ![p] = Append(@, CreateUserPlan[k])]
           /\ IF k = Len(CreateUserPlan)
              THEN Return(p, loc[p].user_id, loc[p])
              ELSE UNCHANGED <<pc, result, loc, snap>>
    /\ UNCHANGED <<clock, call, wfail, returned, closed>>

\* The next INSERT of create_user raises: logged, raised again.
CreateUserWriteFails(p, e) ==
    /\ pc[p] = "c_try"
    /\ wfail < MaxFailures
    /\ wfail' = wfail + 1
    /\ Raise(p, e)
    /\ UNCHANGED <<db, clock, call, applied, returned, closed>>

\* The counter values set_counts is called with.
CountChoices == {0, 1}

\* A call of one statement: call c of caller p leaves the tables as d and
\* hands back r.
OneStatement(p, c, d, r) ==
    /\ pc[p] \in {"idle", "done", "raised"}
    /\ clock < MaxClock
    /\ call' = [call EXCEPT ![p] = c]
    /\ db' = d
    /\ pc' = [pc EXCEPT ![p] = "done"]
    /\ result' = [result EXCEPT ![p] = r]
    /\ loc' = [loc EXCEPT ![p] = NoLoc]
    /\ snap' = [snap EXCEPT ![p] = IF p \in SerialProcs
                                   THEN [db |-> db, returned |-> returned,
                                         closed |-> closed, loc |-> NoLoc,
                                         before |-> NoRow]
                                   ELSE NoSnap]
    /\ applied' = [applied EXCEPT ![p] = <<>>]
    /\ UNCHANGED <<clock, wfail, returned, closed>>

SetCounts(p, user_id, total_borrows, active_borrows) ==
    OneStatement(p, RepoCall("set_counts", user_id, None, <<total_borrows, active_borrows>>),
                 set_counts(db, user_id, total_borrows, active_borrows), None)

GetUser(p, user_id) ==
    OneStatement(p, RepoCall("get_user", user_id, None, None), db, get_user(db, user_id))

GetUserIdByEmail(p, email) ==
    OneStatement(p, RepoCall("get_user_id_by_email", None, None, email), db,
                 get_user_id_by_email(db, email))

GetBookByIsbn(p, isbn) ==
    OneStatement(p, RepoCall("get_book_by_isbn", None, isbn, None), db,
                 get_book_by_isbn(db, isbn))

GetBooksByCategory(p, category) ==
    OneStatement(p, RepoCall("get_books_by_category", None, None, category), db,
                 get_books_by_category(db, category))

GetBooksByAuthor(p, author) ==
    OneStatement(p, RepoCall("get_books_by_author", None, None, author), db,
                 get_books_by_author(db, author))

GetActiveLoans(p, user_id) ==
    OneStatement(p, RepoCall("get_active_borrows_by_user", user_id, None, None), db,
                 get_active_borrows_by_user(db, user_id))

\* The keys the lookups are made with: one that set-up books carry, one that
\* no book carries.
Categories == {"c1", "c2"}
Authors == {"a1", "a2"}

\* The books add_book is called with: those of the set-up, and the single-copy
\* one under another title.
RepoBooks ==
    SetupBooks \cup
    {[b EXCEPT !.title = "t2"] :
        b \in {s \in SetupBooks : s.total_copies = 1 /\ s.available_copies = 1}}

\* The book repository: books are added (an ISBN may be added again, also
\* under another title) and looked up; any INSERT may raise.
NextBooks ==
    \/ \E p \in SerialProcs, b \in RepoBooks : BeginAddBook(p, b)
    \/ \E p \in SerialProcs : AddBookWriteOk(p)
    \/ \E p \in SerialProcs, e \in Causes : AddBookWriteFails(p, e)
    \/ \E p \in SerialProcs, x \in Isbns : GetBookByIsbn(p, x)
    \/ \E p \in SerialProcs, c \in Categories : GetBooksByCategory(p, c)
    \/ \E p \in SerialProcs, a \in Authors : GetBooksByAuthor(p, a)

BooksSpec == Init /\ [][NextBooks]_vars

\* The patron repository: patrons are registered (an email may be registered
\* again), counters set and rows looked up; any INSERT may raise.
NextUsers ==
    \/ \E p \in SerialProcs, email \in Emails : BeginCreateUser(p, email)
    \/ \E p \in SerialProcs : CreateUserUuid(p)
    \/ \E p \in SerialProcs : CreateUserWriteOk(p)
    \/ \E p \in SerialProcs, e \in Causes : CreateUserWriteFails(p, e)
    \/ \E p \in SerialProcs, u \in UserIds, t \in CountChoices, a \in CountChoices :
          a <= t /\ SetCounts(p, u, t, a)
    \/ \E p \in SerialProcs, u \in UserIds : GetUser(p, u)
    \/ \E p \in SerialProcs, email \in Emails : GetUserIdByEmail(p, email)

UsersSpec == Init /\ [][NextUsers]_vars

\* A single thread of control that borrows, returns and lists the active loans
\* of a patron (web/app.py: borrows, borrows_active); no statement raises.
NextLoans ==
    \/ \E b \in SetupBooks :
          SettingUp /\ get_book_by_isbn(db, b.isbn) = NoRow /\ AddBook(b)
    \/ \E email \in Emails :
          SettingUp /\ (\A r \in db.users_by_email : r.email # email) /\ CreateUser(email)
    \/ \E p \in SerialProcs, u \in UserIds, x \in SetupIsbns, days \in LoanDayChoices :
          BeginBorrow(p, u, x, days)
    \/ \E p \in SerialProcs, u \in UserIds, x \in SetupIsbns : BeginReturn(p, u, x)
    \/ \E p \in SerialProcs : Step(p)
    \/ \E p \in SerialProcs, u \in UserIds : GetActiveLoans(p, u)

LoansSpec == Init /\ [][NextLoans]_vars

(* ------------------------ properties ---------------------------------- *)
\* No call is in progress: every call begun has run to completion.
Quiet == \A p \in Procs : pc[p] \in {"idle", "done"}

\* Caller p has completed a call of operation op.
Done(p, op) == pc[p] = "done" /\ call[p].op = op

NoActiveLoan == BorrowResult(FALSE, "Aucun emprunt actif trouvé pour ce livre", "")

\* The rows of a book view that carry ISBN isbn.
RowsOf(table, isbn) == {r \in table : r.isbn = isbn}

\* C1: in a serial run with no write failure, after every call each book of
\* books_by_id has 0 <= available_copies <= total_copies.
C1_CopiesWithinTotal ==
    (Quiet /\ wfail = 0) =>
        \A b \in db.books_by_id :
            0 <= b.available_copies /\ b.available_copies <= b.total_copies

\* C1 witness: a successful Borrow has taken the last copy of a book.
C1_Witness ==
    /\ wfail = 0
    /\ \E p \in SerialProcs :
          /\ Done(p, "borrow") /\ result[p].ok
          /\ \E b \in db.books_by_id : b.isbn = call[p].isbn /\ b.available_copies = 0

ReturnsOnlyBorrowed ==
    \A p \in Procs :
        pc[p] = "r_try" =>
            /\ Len(applied[p]) = 3 =>
                 \A r \in db.borrows_by_user :
                     (r.user_id = call[p].user_id /\ r.isbn = call[p].isbn
                      /\ r.borrow_date = loc[p].match.borrow_date) => r.status = "BORROWED"
            /\ Len(applied[p]) = 4 =>
                 \A r \in db.borrows_by_book :
                     (r.user_id = call[p].user_id /\ r.isbn = call[p].isbn
                      /\ r.borrow_date = loc[p].match.borrow_date) => r.status = "BORROWED"

StoppedByWriteFailure(p) ==
    /\ pc[p] \notin {"b_try", "r_try"}
    /\ snap[p].loc.now # NoneInt
    /\ Len(applied[p]) < Len(BorrowPlan)

\* Open loans (active-loan rows, over all patrons) of ISBN isbn.
OpenLoansOfBook(d, isbn) == {r \in d.active_borrows_by_user : r.isbn = isbn}

\* C6: when a Borrow or a Return stops on a write failure after any prefix of
\* its writes, the book has available_copies <= total_copies - open loans.
C6_StopUnderCounts ==
    \A p \in SerialProcs :
        (pc[p] = "done" /\ StoppedByWriteFailure(p) /\ wfail = 1) =>
            \A b \in db.books_by_id :
                b.isbn = call[p].isbn =>
                    b.available_copies
                        <= b.total_copies - Cardinality(OpenLoansOfBook(db, b.isbn))

\* The tables after the first k writes of call c (locals l) on tables d.
RECURSIVE Replay(_, _, _, _)
Replay(k, d, c, l) ==
    IF k = 0 THEN d
    ELSE IF c.op = "borrow"
         THEN BorrowWrite(k, Replay(k - 1, d, c, l), c, l)
         ELSE ReturnWrite(k, Replay(k - 1, d, c, l), c, l)

\* C7: when a write statement of Borrow or Return raises, the call returns
\* ok=false with a message carrying the cause, the writes issued before it stay
\* applied and no later write is issued.
C7_WriteFailureKeepsPrefix ==
    \A p \in SerialProcs :
        StoppedByWriteFailure(p) =>
            /\ pc[p] = "done"
            /\ \E e \in Causes :
                  result[p] = BorrowResult(FALSE,
                      IF call[p].op = "borrow" THEN "Erreur emprunt" ELSE "Erreur retour", e)
            /\ applied[p] = SubSeq(IF call[p].op = "borrow" THEN BorrowPlan ELSE ReturnPlan,
                                   1, Len(applied[p]))
            /\ db = Replay(Len(applied[p]), snap[p].db, call[p], snap[p].loc)

\* C7 witness: a Return stopped after its first five writes, which are in the
\* tables.
C7_Witness ==
    \E p \in SerialProcs :
        /\ StoppedByWriteFailure(p) /\ call[p].op = "return"
        /\ Len(applied[p]) = 5
        /\ db # snap[p].db

\* C8: Borrow reports the first failing validation in the order book exists,
\* available_copies > 0, patron exists.
C8_BorrowValidationOrder ==
    \A p \in SerialProcs :
        Done(p, "borrow") =>
            LET books == {b \in snap[p].db.books_by_id : b.isbn = call[p].isbn}
                patrons == {u \in snap[p].db.users_by_id : u.user_id = call[p].user_id}
                copies == \E b \in books : b.available_copies > 0
            IN  /\ books = {} => result[p] = BorrowResult(FALSE, "Livre introuvable", "")
                /\ (books # {} /\ ~copies) =>
                       result[p] = BorrowResult(FALSE, "Aucune copie disponible", "")
                /\ (books # {} /\ copies /\ patrons = {}) =>
                       result[p] = BorrowResult(FALSE, "Utilisateur introuvable", "")
                /\ result[p] = BorrowResult(FALSE, "Utilisateur introuvable", "") =>
                       (books # {} /\ copies /\ patrons = {})

\* C8 witness: 'no copies' was reported to a patron who does not exist.
C8_Witness ==
    \E p \in SerialProcs :
        /\ Done(p, "borrow")
        /\ result[p] = BorrowResult(FALSE, "Aucune copie disponible", "")
        /\ \A u \in snap[p].db.users_by_id : u.user_id # call[p].user_id

ValidationFailures ==
    {BorrowResult(FALSE, "Livre introuvable", ""),
     BorrowResult(FALSE, "Aucune copie disponible", ""),
     BorrowResult(FALSE, "Utilisateur introuvable", "")}

\* C9: a Borrow that fails a validation issues no write: the eight tables are
\* as they were when the call began.
C9_FailedBorrowWritesNothing ==
    \A p \in SerialProcs :
        (Done(p, "borrow") /\ result[p] \in ValidationFailures) =>
            db = snap[p].db /\ applied[p] = <<>>

\* C9 witness: a Borrow failed on the missing patron while the book had a copy.
C9_Witness ==
    \E p \in SerialProcs :
        /\ Done(p, "borrow")
        /\ result[p] = BorrowResult(FALSE, "Utilisateur introuvable", "")
        /\ \E b \in db.books_by_id : b.isbn = call[p].isbn /\ b.available_copies > 0

\* C10: a Return for which the patron's active-loan partition holds no row of
\* the ISBN fails with 'no active loan' and leaves every table unchanged, also
\* when other patrons hold open loans of that ISBN.
C10_ReturnWithoutLoan ==
    \A p \in SerialProcs :
        (Done(p, "return") /\ OpenLoans(snap[p].db, call[p].user_id, call[p].isbn) = {}) =>
            result[p] = NoActiveLoan /\ db = snap[p].db /\ applied[p] = <<>>

\* C10 witness: the Return was refused while another patron holds an open loan
\* of the same ISBN.
C10_Witness ==
    \E p \in SerialProcs :
        /\ Done(p, "return") /\ result[p] = NoActiveLoan
        /\ \E r \in db.active_borrows_by_user :
              r.isbn = call[p].isbn /\ r.user_id # call[p].user_id


\* Caller p has completed a Borrow of ISBN isbn that passed its validations
\* after reading available_copies = 1.
BorrowedLastCopy(p, isbn) ==
    /\ Done(p, "borrow") /\ call[p].isbn = isbn
    /\ snap[p].loc.book # NoRow /\ snap[p].loc.user # NoRow
    /\ snap[p].loc.book.available_copies = 1

\* The row r of a loan table is the loan made by the Borrow call of caller p.
IsLoanOf(r, p) ==
    r.user_id = call[p].user_id /\ r.borrow_date = snap[p].loc.now

\* The loan history of ISBN isbn holds the loans of the calls of p and q and
\* nothing else: no other Borrow of the book has written, no Return has closed one.
OnlyLoansOf(p, q, isbn) ==
    \A r \in RowsOf(db.borrows_by_book, isbn) :
        r.status = "BORROWED" /\ (IsLoanOf(r, p) \/ IsLoanOf(r, q))

\* C5: two Borrow calls of one ISBN that both read available_copies = 1, the
\* only calls to have lent the book, both return ok=true and both write 0;
\* with distinct patrons the book then has two open loans.
C5_BothBorrowLastCopy ==
    \A p, q \in ConcProcs, x \in Isbns :
        (p # q /\ BorrowedLastCopy(p, x) /\ BorrowedLastCopy(q, x)
               /\ OnlyLoansOf(p, q, x)) =>
            /\ result[p].ok /\ result[q].ok
            /\ \A b \in RowsOf(db.books_by_id, x) : b.available_copies = 0
            /\ call[p].user_id # call[q].user_id =>
                   Cardinality(OpenLoansOfBook(db, x)) = 2

\* C5 witness: both calls returned ok=true on a book with a single copy, which
\* now has two open loans.
C5_Witness ==
    \E p, q \in ConcProcs, x \in Isbns :
        /\ p # q /\ BorrowedLastCopy(p, x) /\ BorrowedLastCopy(q, x)
        /\ OnlyLoansOf(p, q, x)
        /\ result[p].ok /\ result[q].ok
        /\ \E b \in db.books_by_id :
              b.isbn = x /\ b.total_copies = 1 /\ b.available_copies = 0
        /\ Cardinality(OpenLoansOfBook(db, x)) = 2

\* C11: Return checks the active loan, then the book, then the patron. With
\* a loan found and the book row missing it fails 'Livre introuvable
\* (books_by_id)' whatever the patron; with the book present and the patron row
\* missing it fails 'Utilisateur introuvable'; in both cases no table changes.
C11_ReturnValidationOrder ==
    \A p \in SerialProcs :
        Done(p, "return") =>
            LET d == snap[p].db
                found == OpenLoans(d, call[p].user_id, call[p].isbn) # {}
                hasBook == \E b \in d.books_by_id : b.isbn = call[p].isbn
                hasUser == \E u \in d.users_by_id : u.user_id = call[p].user_id
            IN  /\ ~found => result[p] = NoActiveLoan
                /\ (found /\ ~hasBook) =>
                       /\ result[p] = BorrowResult(FALSE, "Livre introuvable (books_by_id)", "")
                       /\ db = d
                /\ (found /\ hasBook /\ ~hasUser) =>
                       /\ result[p] = BorrowResult(FALSE, "Utilisateur introuvable", "")
                       /\ db = d

\* C11 witness: a Return found the loan but not the book; the patron row is
\* missing too, and the active-loan row is still there.
C11_Witness ==
    \E p \in SerialProcs :
        /\ Done(p, "return")
        /\ result[p] = BorrowResult(FALSE, "Livre introuvable (books_by_id)", "")
        /\ db.users_by_id = {}
        /\ OpenLoans(db, call[p].user_id, call[p].isbn) # {}

\* A Return found the loan and the book but not the patron.
C11_PatronMissingReached ==
    \E p \in SerialProcs :
        /\ Done(p, "return")
        /\ result[p] = BorrowResult(FALSE, "Utilisateur introuvable", "")
        /\ OpenLoans(db, call[p].user_id, call[p].isbn) # {}

\* The row r carries the key of the loan of call c begun at borrow_date.
HasLoanKey(r, c, borrow_date) ==
    r.user_id = c.user_id /\ r.borrow_date = borrow_date /\ r.isbn = c.isbn

\* The book view now holds the rows of before, the rows of ISBN isbn with
\* available_copies set to the value books_by_id (table byId) held plus delta.
CopiesMoved(byId, before, after, isbn, delta) ==
    after = {IF b.isbn = isbn
             THEN [b EXCEPT !.available_copies =
                      (CHOOSE o \in RowsOf(byId, isbn) : TRUE).available_copies + delta]
             ELSE b : b \in before}

\* C12: a Borrow that returned ok=true, run with no interleaved operation, has
\* set available_copies of the book in the three views to the value books_by_id
\* held minus 1, added one
\* BORROWED row with no return date to borrows_by_user and to borrows_by_book
\* and one row to active_borrows_by_user, the three with the same patron, ISBN,
\* loan start and due date = loan start + loan_days days, and raised the
\* patron's total_borrows and active_borrows by 1; nothing else changed.
C12_BorrowEffect ==
    \A p \in SerialProcs :
        (Done(p, "borrow") /\ result[p].ok) =>
            LET d == snap[p].db
                c == call[p]
                start == snap[p].loc.now
                due == start + c.loan_days * TicksPerDay
                New(before, after) ==
                    \E r \in after :
                        /\ HasLoanKey(r, c, start) /\ r.due_date = due
                        /\ ~ \E o \in before : HasLoanKey(o, c, start)
                        /\ after = before \cup {r}
            IN  /\ RowsOf(d.books_by_id, c.isbn) # {}
                /\ CopiesMoved(d.books_by_id, d.books_by_id, db.books_by_id, c.isbn, -1)
                /\ CopiesMoved(d.books_by_id, d.books_by_category, db.books_by_category, c.isbn, -1)
                /\ CopiesMoved(d.books_by_id, d.books_by_author, db.books_by_author, c.isbn, -1)
                /\ New(d.borrows_by_user, db.borrows_by_user)
                /\ New(d.borrows_by_book, db.borrows_by_book)
                /\ New(d.active_borrows_by_user, db.active_borrows_by_user)
                /\ \A r \in (db.borrows_by_user \ d.borrows_by_user)
                           \cup (db.borrows_by_book \ d.borrows_by_book) :
                       r.status = "BORROWED" /\ r.return_date = NoneInt
                /\ db.users_by_id =
                       {IF u.user_id = c.user_id
                        THEN [u EXCEPT !.total_borrows = u.total_borrows + 1,
                                       !.active_borrows = u.active_borrows + 1]
                        ELSE u : u \in d.users_by_id}
                /\ db.users_by_email = d.users_by_email

\* C12 witness: a successful Borrow by a patron who had borrowed before: the
\* patron's lifetime counter has reached 2.
C12_Witness ==
    \E p \in SerialProcs :
        /\ Done(p, "borrow") /\ result[p].ok
        /\ \E u \in db.users_by_id :
              u.user_id = call[p].user_id /\ u.total_borrows = 2

\* C13: a Return that returned ok=true, run with no interleaved operation, has
\* deleted the matched active-loan row and no other, set the patron's
\* active_borrows to max(0, previous value - 1) and left total_borrows, and
\* every other patron, unchanged.
C13_ReturnEffect ==
    \A p \in SerialProcs :
        (Done(p, "return") /\ result[p].ok) =>
            LET d == snap[p].db
                c == call[p]
                match == snap[p].loc.match
            IN  /\ match \in d.active_borrows_by_user
                /\ match.user_id = c.user_id /\ match.isbn = c.isbn
                /\ db.active_borrows_by_user = d.active_borrows_by_user \ {match}
                /\ db.users_by_id =
                       {IF u.user_id = c.user_id
                        THEN [u EXCEPT !.active_borrows =
                                 IF u.active_borrows >= 1 THEN u.active_borrows - 1 ELSE 0]
                        ELSE u : u \in d.users_by_id}

\* C13 witness: a successful Return by a patron whose counter was already 0
\* (the Borrow of the loan stopped before its counter update): it stays 0.
C13_Witness ==
    \E p \in SerialProcs :
        /\ Done(p, "return") /\ result[p].ok
        /\ \E u \in snap[p].db.users_by_id :
              u.user_id = call[p].user_id /\ u.active_borrows = 0

\* A successful Return by a patron with two open loans: the counter goes 2 -> 1.
C13_DecrementReached ==
    \E p \in SerialProcs :
        /\ Done(p, "return") /\ result[p].ok
        /\ \E u \in snap[p].db.users_by_id :
              u.user_id = call[p].user_id /\ u.active_borrows = 2

\* The smaller of two integers.
Min(a, b) == IF a <= b THEN a ELSE b

\* C14: a successful Return has written min(previous available_copies + 1,
\* total_copies) to the rows of the ISBN in the three book views, the previous
\* value and total_copies being those of books_by_id, so the value stored is
\* never above total_copies.
C14_ReturnClampsCopies ==
    \A p \in SerialProcs :
        (Done(p, "return") /\ result[p].ok) =>
            \E o \in RowsOf(snap[p].db.books_by_id, call[p].isbn) :
                LET new_avail == Min(o.available_copies + 1, o.total_copies)
                IN  /\ new_avail <= o.total_copies
                    /\ \A view \in {db.books_by_id, db.books_by_category,
                                     db.books_by_author} :
                           /\ RowsOf(view, call[p].isbn) # {}
                           /\ \A b \in RowsOf(view, call[p].isbn) :
                                  /\ b.available_copies = new_avail
                                  /\ b.total_copies = o.total_copies

\* C14 witness: a successful Return of a book whose stored available_copies
\* already equalled total_copies before the call.
C14_Witness ==
    \E p \in SerialProcs :
        /\ Done(p, "return") /\ result[p].ok
        /\ \E o \in RowsOf(snap[p].db.books_by_id, call[p].isbn) :
              o.available_copies = o.total_copies
        /\ \A b \in RowsOf(db.books_by_id, call[p].isbn) :
              b.available_copies = b.total_copies

\* The history view after holds the rows of before, the one row with the key
\* of the active-loan row match set to RETURNED at return_date, and that row
\* was there before.
Closed(before, after, match, return_date) ==
    /\ \E r \in before : HasLoanKey(r, match, match.borrow_date)
    /\ after = {IF HasLoanKey(r, match, match.borrow_date)
                THEN [r EXCEPT !.status = "RETURNED", !.return_date = return_date]
                ELSE r : r \in before}

\* C15: a successful Return has set status RETURNED and its timestamp on
\* exactly the borrows_by_user row and the borrows_by_book row with the key
\* (patron, loan start, ISBN) of the matched active-loan row; no history row
\* was created and no other history row changed.
C15_ReturnClosesMatchedLoan ==
    \A p \in SerialProcs :
        (Done(p, "return") /\ result[p].ok) =>
            LET d == snap[p].db
                match == snap[p].loc.match
                return_date == snap[p].loc.now
            IN  /\ match.user_id = call[p].user_id /\ match.isbn = call[p].isbn
                /\ return_date # NoneInt
                /\ Closed(d.borrows_by_user, db.borrows_by_user, match, return_date)
                /\ Closed(d.borrows_by_book, db.borrows_by_book, match, return_date)

\* C15 witness: a successful Return while the same patron holds another loan
\* of the same ISBN, whose history rows are still BORROWED.
C15_Witness ==
    \E p \in SerialProcs :
        /\ Done(p, "return") /\ result[p].ok
        /\ \E r \in db.borrows_by_user, q \in db.borrows_by_book :
              /\ r.user_id = call[p].user_id /\ r.isbn = call[p].isbn
              /\ r.borrow_date # snap[p].loc.match.borrow_date
              /\ r.status = "BORROWED"
              /\ HasLoanKey(q, r, r.borrow_date) /\ q.status = "BORROWED"

\* In this step every RETURNED row of the two history views stays as it is,
\* and every BORROWED row that appears has a key no row had before.
ReturnedRowsStay ==
    /\ \A r \in db.borrows_by_user : r.status = "RETURNED" => r \in db'.borrows_by_user
    /\ \A r \in db.borrows_by_book : r.status = "RETURNED" => r \in db'.borrows_by_book
    /\ \A r \in db'.borrows_by_user \ db.borrows_by_user :
           r.status = "BORROWED" =>
               ~ \E o \in db.borrows_by_user : HasLoanKey(o, r, r.borrow_date)
    /\ \A r \in db'.borrows_by_book \ db.borrows_by_book :
           r.status = "BORROWED" =>
               ~ \E o \in db.borrows_by_book : HasLoanKey(o, r, r.borrow_date)

KeptInHistory(r, after) ==
    \E n \in after :
        n = [r EXCEPT !.status = n.status, !.return_date = n.return_date]

KeptButDue(r, after) ==
    \E n \in after :
        /\ n = [r EXCEPT !.status = n.status, !.return_date = n.return_date,
                         !.due_date = n.due_date]
        /\ n.due_date # r.due_date =>
               \E p \in Procs :
                   /\ pc[p] = "b_try" /\ call[p].op = "borrow"
                   /\ HasLoanKey(r, call[p], loc[p].now)

Loan(r) ==
    [user_id |-> r.user_id, borrow_date |-> r.borrow_date, isbn |-> r.isbn,
     status |-> r.status, due_date |-> r.due_date, return_date |-> r.return_date]

\* The two history views hold the same loans, each with the same status, due
\* date and return date in both.
SameLoans(d) == {Loan(r) : r \in d.borrows_by_user} = {Loan(r) : r \in d.borrows_by_book}

LoanKey(r) == <<r.user_id, r.borrow_date, r.isbn>>

\* The keys of the rows of a history view with status BORROWED.
BorrowedKeys(view) == {LoanKey(r) : r \in {h \in view : h.status = "BORROWED"}}

\* C19: after any serial sequence of Borrow and Return calls with no write
\* failure, active_borrows_by_user holds a row exactly for the loans whose
\* history row, in either view, has status BORROWED.
C19_ActiveIffBorrowed ==
    (Quiet /\ wfail = 0) =>
        /\ {LoanKey(r) : r \in db.active_borrows_by_user} = BorrowedKeys(db.borrows_by_user)
        /\ {LoanKey(r) : r \in db.active_borrows_by_user} = BorrowedKeys(db.borrows_by_book)

\* C19 witness: with no write failure, after a Return one loan is RETURNED and
\* has no active row while another is BORROWED and has its active row.
C19_Witness ==
    /\ Quiet /\ wfail = 0
    /\ \E p \in SerialProcs : Done(p, "return") /\ result[p].ok
    /\ \E r \in db.borrows_by_user :
          /\ r.status = "RETURNED"
          /\ LoanKey(r) \notin {LoanKey(a) : a \in db.active_borrows_by_user}
    /\ \E r \in db.borrows_by_user :
          /\ r.status = "BORROWED"
          /\ LoanKey(r) \in {LoanKey(a) : a \in db.active_borrows_by_user}

\* The completed call of caller p has left a history row of its own: the
\* BORROWED row of its loan for a Borrow, the row of the matched loan set to
\* RETURNED at its now for a Return.
LeftHistoryRow(p) ==
    LET l == snap[p].loc
    IN  /\ pc[p] = "done" /\ l.now # NoneInt
        /\ \E r \in db.borrows_by_user \cup {Loan(h) : h \in db.borrows_by_book} :
               IF call[p].op = "borrow"
               THEN HasLoanKey(r, call[p], l.now) /\ r.status = "BORROWED"
               ELSE /\ HasLoanKey(r, call[p], l.match.borrow_date)
                    /\ r.status = "RETURNED" /\ r.return_date = l.now

\* C20 as stated: a BORROWED history row exists only if the Borrow that
\* created it returned ok=true, and a history row is RETURNED only if the
\* Return that changed it returned ok=true, also when a write statement fails.
C20_HistoryOnlyFromSuccess ==
    \A p \in SerialProcs : LeftHistoryRow(p) => result[p].ok

\* C20 amended: a history row is created BORROWED, or set to RETURNED, only by
\* a call that passed its validations and issued that write; the call returned
\* ok=true unless a later write statement of the same call raised, in which
\* case it returned ok=false with the cause and the row stays. A call that
\* failed a validation leaves both history views as they were.
C20_HistoryOnlyFromWritingCall ==
    \A p \in SerialProcs :
        pc[p] = "done" =>
            /\ LeftHistoryRow(p) =>
                   \/ result[p].ok
                   \/ /\ StoppedByWriteFailure(p)
                      /\ Len(applied[p]) >= 4
                      /\ \E e \in Causes : result[p].message[2] = e
            /\ snap[p].loc.now = NoneInt =>
                   /\ ~ result[p].ok
                   /\ db.borrows_by_user = snap[p].db.borrows_by_user
                   /\ db.borrows_by_book = snap[p].db.borrows_by_book

\* C20 witness: a Borrow returned ok=false because its ins_active raised; the
\* BORROWED rows it had inserted are in both history views.
C20_Witness ==
    \E p \in SerialProcs :
        /\ Done(p, "borrow") /\ ~ result[p].ok
        /\ Len(applied[p]) = 5
        /\ \E r \in db.borrows_by_user :
              HasLoanKey(r, call[p], snap[p].loc.now) /\ r.status = "BORROWED"
        /\ \E r \in db.borrows_by_book :
              HasLoanKey(r, call[p], snap[p].loc.now) /\ r.status = "BORROWED"

\* The rows of the three book views.
BookViews == {"books_by_id", "books_by_category", "books_by_author"}

\* This step leaves the counters of every existing book row and patron row as
\* they are.
CountersKept ==
    /\ \A t \in BookViews : \A r \in db[t] : \A r2 \in db'[t] :
          (r2.isbn = r.isbn /\ r2.category = r.category /\ r2.author = r.author
              /\ r2.title = r.title)
                => r2.available_copies = r.available_copies
    /\ \A r \in db.users_by_id : \A r2 \in db'.users_by_id :
          r2.user_id = r.user_id
              => (r2.total_borrows = r.total_borrows
                    /\ r2.active_borrows = r.active_borrows)

\* C21: once a book or a patron exists, its counters (available_copies in the
\* three book views, total_borrows and active_borrows in users_by_id) are
\* changed only by Borrow and Return: a step of any other operation, AddBook
\* on an ISBN that already exists included, leaves them as they are.
C21_CountersOnlyByLoans ==
    [][(\A p \in Procs : call'[p].op \notin {"borrow", "return"}) => CountersKept]_vars

\* Before the call of caller p the book of ISBN isbn, added with
\* available_copies = total_copies, had only been borrowed from: every loan of
\* its history is open and each took one copy.
OnlyBorrowedFrom(d, isbn) ==
    LET loans == RowsOf(d.borrows_by_book, isbn)
    IN  /\ \A r \in loans : r.status = "BORROWED"
        /\ \A b \in RowsOf(d.books_by_id, isbn) :
              b.available_copies + Cardinality(loans) = b.total_copies

\* C22: for a book added with total_copies = available_copies = N, serial
\* Borrow calls by distinct existing patrons succeed exactly N times, each
\* lowering available_copies by 1 and adding an active loan for the borrower;
\* the (N+1)-th Borrow fails with 'no copies' and changes nothing.
C22_BorrowUntilNoCopy ==
    \A p \in SerialProcs :
        LET d == snap[p].db
            c == call[p]
            loans == RowsOf(d.borrows_by_book, c.isbn)
        IN  (/\ Done(p, "borrow") /\ wfail = 0
             /\ RowsOf(d.books_by_id, c.isbn) # {}
             /\ sel_user(d, c.user_id) # NoRow
             /\ OnlyBorrowedFrom(d, c.isbn)
             /\ \A r \in loans : r.user_id # c.user_id) =>
                \A b \in RowsOf(d.books_by_id, c.isbn) :
                    IF Cardinality(loans) < b.total_copies
                    THEN /\ result[p].ok
                         /\ \A b2 \in RowsOf(db.books_by_id, c.isbn) :
                               b2.available_copies = b.available_copies - 1
                         /\ OpenLoans(d, c.user_id, c.isbn) = {}
                         /\ Cardinality(OpenLoans(db, c.user_id, c.isbn)) = 1
                    ELSE /\ result[p] = BorrowResult(FALSE, "Aucune copie disponible", "")
                         /\ db = d

\* C22 witness: on a book of one copy the first Borrow has succeeded and the
\* Borrow of a second patron has just been refused for want of a copy.
C22_Witness ==
    \E p \in SerialProcs :
        /\ Done(p, "borrow") /\ wfail = 0
        /\ result[p] = BorrowResult(FALSE, "Aucune copie disponible", "")
        /\ sel_user(db, call[p].user_id) # NoRow
        /\ OnlyBorrowedFrom(db, call[p].isbn)
        /\ \E b \in RowsOf(db.books_by_id, call[p].isbn) :
              b.total_copies = 1 /\ b.available_copies = 0
        /\ \E r \in RowsOf(db.borrows_by_book, call[p].isbn) : r.user_id # call[p].user_id

\* C22: the last copy of a book of two copies has gone to a second patron.
C22_SecondCopyReached ==
    \E p \in SerialProcs :
        /\ Done(p, "borrow") /\ wfail = 0 /\ result[p].ok
        /\ OnlyBorrowedFrom(snap[p].db, call[p].isbn)
        /\ \E b \in RowsOf(db.books_by_id, call[p].isbn) :
              b.total_copies = 2 /\ b.available_copies = 0
        /\ Cardinality({r.user_id : r \in OpenLoansOfBook(db, call[p].isbn)}) = 2

\* Caller p has completed a Return with ok=true that followed at once its own
\* successful Borrow of the same ISBN for the same patron; no write has raised.
RoundTrip(p) ==
    /\ Done(p, "return") /\ result[p].ok
    /\ snap[p].before # NoRow
    /\ wfail = 0

\* The tables are those of before the Borrow, except that the loan the Borrow
\* made is in both history views with status RETURNED and the patron's
\* total_borrows is one higher.
Restored(p) ==
    LET b0 == snap[p].before
        c == call[p]
        made == snap[p].db.borrows_by_user \ b0.borrows_by_user
        OfLoan(r) == \E n \in made : HasLoanKey(r, c, n.borrow_date)
    IN  /\ db.books_by_id = b0.books_by_id
        /\ db.books_by_category = b0.books_by_category
        /\ db.books_by_author = b0.books_by_author
        /\ db.active_borrows_by_user = b0.active_borrows_by_user
        /\ db.users_by_id =
               {IF u.user_id = c.user_id
                THEN [u EXCEPT !.total_borrows = @ + 1] ELSE u : u \in b0.users_by_id}
        /\ Cardinality(made) = 1
        /\ {r \in db.borrows_by_user : ~ OfLoan(r)} = b0.borrows_by_user
        /\ {r \in db.borrows_by_book : ~ OfLoan(r)} = b0.borrows_by_book
        /\ \E r \in db.borrows_by_user : OfLoan(r)
        /\ \E r \in db.borrows_by_book : OfLoan(r)
        /\ \A r \in db.borrows_by_user \cup db.borrows_by_book :
              OfLoan(r) => r.status = "RETURNED"

\* C23 (as stated): round trip: a successful Borrow(p, x) followed, serially
\* and with no failure, by a successful Return(p, x) restores the book's
\* available_copies, the patron's active_borrows and the patron's active-loan
\* partition to their values before the Borrow, leaves the loan's history rows
\* with status RETURNED, and leaves total_borrows one higher.
C23_RoundTrip ==
    \A p \in SerialProcs : RoundTrip(p) => Restored(p)

\* C23 (amended): the round trip restores those values when the patron held no
\* open loan of the ISBN before the Borrow.
C23_RoundTripOfOnlyLoan ==
    \A p \in SerialProcs :
        (RoundTrip(p) /\ OpenLoans(snap[p].before, call[p].user_id, call[p].isbn) = {})
            => Restored(p)

\* C23 witness: the round trip ran on a book of which another patron holds an
\* open loan, for a patron with no open loan of it before.
C23_Witness ==
    \E p \in SerialProcs :
        /\ RoundTrip(p)
        /\ OpenLoans(snap[p].before, call[p].user_id, call[p].isbn) = {}
        /\ OpenLoansOfBook(db, call[p].isbn) # {}

\* No create_user call has written a patron row for this email.
NeverRegistered(d, email) == \A r \in d.users_by_id : r.email # email

\* C24: after CreatePatron(email, ...) returns identifier u, get_user(u)
\* returns a patron with that email, total_borrows = 0 and active_borrows = 0,
\* get_user_id_by_email(email) returns u, and get_user_id_by_email of an email
\* never registered returns no identifier.
C24_CreateThenLookup ==
    \A p \in SerialProcs :
        Done(p, "create_user") =>
            LET u == result[p]
                email == call[p].arg
            IN  /\ get_user(db, u) # NoRow
                /\ get_user(db, u).user_id = u
                /\ get_user(db, u).email = email
                /\ get_user(db, u).total_borrows = 0
                /\ get_user(db, u).active_borrows = 0
                /\ get_user_id_by_email(db, email) = u
                /\ \A e \in Emails :
                      NeverRegistered(db, e) => get_user_id_by_email(db, e) = None

\* C24 witness: create_user has returned the identifier of a second patron
\* while one email has never been registered.
C24_Witness ==
    \E p \in SerialProcs :
        /\ Done(p, "create_user")
        /\ result[p] = UuidOrder[2]
        /\ \E e \in Emails : NeverRegistered(db, e)
        /\ Cardinality(db.users_by_id) = 2

\* In tables d the email resolves to a patron that exists.
EmailInUse(d, email) ==
    /\ get_user_id_by_email(d, email) # None
    /\ get_user(d, get_user_id_by_email(d, email)) # NoRow

\* C25: CreatePatron called with an email already in use by an existing patron
\* fails: it creates no new patron and the email keeps resolving to the
\* identifier of the first patron.
C25_DuplicateEmailFails ==
    \A p \in SerialProcs :
        (/\ pc[p] \in {"done", "raised"} /\ call[p].op = "create_user"
         /\ EmailInUse(snap[p].db, call[p].arg)) =>
            /\ pc[p] = "raised"
            /\ db.users_by_id = snap[p].db.users_by_id
            /\ get_user_id_by_email(db, call[p].arg)
                   = get_user_id_by_email(snap[p].db, call[p].arg)

\* The tables after the first k statements of the add_book or create_user call
\* of caller p, begun on tables d.
RECURSIVE RepoReplay(_, _, _)
RepoReplay(k, d, p) ==
    IF k = 0 THEN d
    ELSE IF call[p].op = "add_book"
         THEN AddBookWrite(k, RepoReplay(k - 1, d, p), call[p].arg)
         ELSE CreateUserWrite(k, RepoReplay(k - 1, d, p), snap[p].loc.user_id, call[p].arg)

\* The add_book or create_user call of caller p has ended on a write statement
\* that raised.
EndedOnWriteFailure(p) ==
    /\ pc[p] \in {"done", "raised"}
    /\ \/ call[p].op = "add_book" /\ Len(applied[p]) < Len(AddBookPlan)
       \/ call[p].op = "create_user" /\ Len(applied[p]) < Len(CreateUserPlan)

\* C26: in the entity repositories, a failure of any write statement of AddBook
\* or CreatePatron is caught and converted to a failure return value, not
\* propagated to the caller as an exception, and the statements the call had
\* already applied are not rolled back.
C26_WriteFailureConverted ==
    \A p \in SerialProcs :
        EndedOnWriteFailure(p) =>
            /\ pc[p] = "done"
            /\ db = RepoReplay(Len(applied[p]), snap[p].db, p)

\* C26, the part that holds: a raised INSERT of add_book makes the call return
\* False, and the INSERTs before it stay applied.
C26_AddBookFailureReturnsFalse ==
    \A p \in SerialProcs :
        (EndedOnWriteFailure(p) /\ call[p].op = "add_book") =>
            /\ pc[p] = "done" /\ result[p] = FALSE
            /\ db = RepoReplay(Len(applied[p]), snap[p].db, p)

\* C26: add_book has returned False after two of its three INSERTs on an ISBN
\* that was not there.
C26_AddBookPartReached ==
    \E p \in SerialProcs :
        /\ EndedOnWriteFailure(p) /\ call[p].op = "add_book"
        /\ Len(applied[p]) = 2
        /\ snap[p].db.books_by_id = {} /\ db.books_by_id # {} /\ db.books_by_author = {}

\* The view rows hold one for the ISBN and title of book b that carries the
\* copy counts of b.
CarriesCopies(rows, b) ==
    \E r \in rows :
        /\ r.isbn = b.isbn /\ r.title = b.title
        /\ r.available_copies = b.available_copies
        /\ r.total_copies = b.total_copies

\* C27: after AddBook(b) returns true, get_book_by_isbn(b.isbn) returns b,
\* get_books_by_category(b.category) and get_books_by_author(b.author) each
\* contain a row for b.isbn, and the three rows carry the same available_copies
\* and total_copies as b.
C27_AddThenLookup ==
    \A p \in SerialProcs :
        (Done(p, "add_book") /\ result[p] = TRUE) =>
            LET b == call[p].arg
            IN  /\ get_book_by_isbn(db, b.isbn) = b
                /\ CarriesCopies(get_books_by_category(db, b.category), b)
                /\ CarriesCopies(get_books_by_author(db, b.author), b)

\* C27 witness: add_book returned True for an ISBN that was there with other
\* copy counts.
C27_Witness ==
    \E p \in SerialProcs :
        /\ Done(p, "add_book") /\ result[p] = TRUE
        /\ \E o \in snap[p].db.books_by_id :
              /\ o.isbn = call[p].arg.isbn
              /\ o.available_copies # call[p].arg.available_copies
        /\ call[p].arg.available_copies < call[p].arg.total_copies

\* The entry e of a GetActiveLoans result is the loan of history row h.
EntryOf(e, h) ==
    e.user_id = h.user_id /\ e.isbn = h.isbn /\ e.borrow_date = h.borrow_date

\* C28: GetActiveLoans(patron) changes no table and returns one entry per row
\* of that patron's active-loan partition and none of another patron: a loan
\* made by a successful Borrow of the patron is in the result, and once it has
\* been closed by a successful Return it no longer is.
C28_ActiveLoansListed ==
    \A p \in SerialProcs :
        Done(p, "get_active_borrows_by_user") =>
            LET u == call[p].user_id
                part == {r \in db.active_borrows_by_user : r.user_id = u}
            IN  /\ db = snap[p].db
                /\ Cardinality(result[p]) = Cardinality(part)
                /\ \A r \in part : \E e \in result[p] :
                      /\ EntryOf(e, r)
                      /\ e.book_title = r.book_title /\ e.due_date = r.due_date
                /\ \A e \in result[p] : e.user_id = u
                /\ \A h \in db.borrows_by_user :
                      h.user_id = u =>
                          (h.status = "BORROWED" <=> \E e \in result[p] : EntryOf(e, h))

\* C28 witness: the patron's list holds an open loan and not the loan the
\* patron has returned.
C28_Witness ==
    \E p \in SerialProcs :
        /\ Done(p, "get_active_borrows_by_user")
        /\ result[p] # {}
        /\ \E h \in db.borrows_by_user :
              h.user_id = call[p].user_id /\ h.status = "RETURNED"

\* C28: the patron's list holds an open loan while another patron holds one too.
C28_OtherPatronReached ==
    \E p \in SerialProcs :
        /\ Done(p, "get_active_borrows_by_user")
        /\ result[p] # {}
        /\ \E r \in db.active_borrows_by_user : r.user_id # call[p].user_id

\* This step changes table t.
Changed(t) == db'[t] # db[t]

\* The three book views hold, for the book of the call in progress of caller p,
\* the available_copies this call writes.
CopiesWritten(p) ==
    LET new == IF call[p].op = "borrow" THEN NewAvailBorrow(loc[p].book)
               ELSE NewAvailReturn(loc[p].book)
    IN  \A t \in BookViews :
            /\ RowsOf(db[t], call[p].isbn) # {}
            /\ \A r \in RowsOf(db[t], call[p].isbn) : r.available_copies = new

\* History view t holds the row the call in progress of caller p writes there:
\* the BORROWED row of its loan, or the matched loan's row set to RETURNED.
HistoryWritten(p, t) ==
    IF call[p].op = "borrow"
    THEN \E r \in db[t] : HasLoanKey(r, call[p], loc[p].now) /\ r.status = "BORROWED"
    ELSE \E r \in db[t] :
            /\ HasLoanKey(r, call[p], loc[p].match.borrow_date)
            /\ r.status = "RETURNED" /\ r.return_date = loc[p].now

\* The active-loan view is as the call in progress of caller p leaves it: the
\* row of its loan inserted, or the matched row deleted.
ActiveWritten(p) ==
    IF call[p].op = "borrow"
    THEN \E r \in db.active_borrows_by_user : HasLoanKey(r, call[p], loc[p].now)
    ELSE loc[p].match \notin db.active_borrows_by_user

\* A step of the try block of caller p changes one table, and changes it only
\* after the writes that precede it in the order: books_by_id, books_by_category,
\* books_by_author, borrows_by_user, borrows_by_book, active_borrows_by_user,
\* users_by_id.
InWriteOrder(p) ==
    /\ \A t, s \in DOMAIN db : (Changed(t) /\ Changed(s)) => t = s
    /\ Changed("users_by_email") = FALSE
    /\ Changed("books_by_category") =>
          \A r \in RowsOf(db.books_by_id, call[p].isbn) :
              \A r2 \in RowsOf(db'.books_by_category, call[p].isbn) :
                  r2.available_copies = r.available_copies
    /\ Changed("books_by_author") =>
          \A r \in RowsOf(db.books_by_category, call[p].isbn) :
              \A r2 \in RowsOf(db'.books_by_author, call[p].isbn) :
                  r2.available_copies = r.available_copies
    /\ Changed("borrows_by_user") => CopiesWritten(p)
    /\ Changed("borrows_by_book") =>
          CopiesWritten(p) /\ HistoryWritten(p, "borrows_by_user")
    /\ Changed("active_borrows_by_user") =>
          /\ CopiesWritten(p)
          /\ HistoryWritten(p, "borrows_by_user") /\ HistoryWritten(p, "borrows_by_book")
    /\ Changed("users_by_id") =>
          /\ CopiesWritten(p)
          /\ HistoryWritten(p, "borrows_by_user") /\ HistoryWritten(p, "borrows_by_book")
          /\ ActiveWritten(p)

\* C29: Borrow and Return issue their writes in the fixed order: the copy
\* count in books_by_id, books_by_category, books_by_author; then the two
\* history views (by patron, by book); then the active-loan view; the patron
\* counters last. No history or active-loan write is applied before the three
\* copy-count writes of the same call.
C29_WriteOrder ==
    [][\A p \in SerialProcs :
          /\ pc[p] \in {"b_try", "r_try"} => InWriteOrder(p)
          /\ applied'[p] = SubSeq(IF call'[p].op = "return" THEN ReturnPlan ELSE BorrowPlan,
                                  1, Len(applied'[p]))
             \/ call'[p].op \notin {"borrow", "return"}]_vars

\* C29 witness: a Return has applied its seven writes, the last of which
\* lowered the patron's active_borrows.
C29_Witness ==
    \E p \in SerialProcs :
        /\ Done(p, "return") /\ result[p].ok
        /\ applied[p] = ReturnPlan
        /\ snap[p].db.users_by_id # db.users_by_id
        /\ snap[p].db.books_by_author # db.books_by_author

\* C29: a Borrow has applied its seven writes.
C29_BorrowReached ==
    \E p \in SerialProcs :
        /\ Done(p, "borrow") /\ result[p].ok
        /\ applied[p] = BorrowPlan
        /\ snap[p].db.users_by_id # db.users_by_id

\* C30: the clamp in Return is not a normal-path event: in a serial run of
\* Borrow and Return calls with no write failure, on books added with
\* available_copies <= total_copies (in particular = total_copies), every
\* successful Return finds available_copies + 1 <= total_copies, so the value
\* written is available_copies + 1, the clamp changing nothing.
C30_ClampNeverActs ==
    \A p \in SerialProcs :
        (Done(p, "return") /\ result[p].ok /\ wfail = 0) =>
            LET book == snap[p].loc.book
            IN  /\ book.available_copies + 1 <= book.total_copies
                /\ NewAvailReturn(book) = book.available_copies + 1
                /\ \A b \in RowsOf(db.books_by_id, call[p].isbn) :
                      b.available_copies = book.available_copies + 1

\* C30 witness: a Return with no failure before it brought a book added full
\* back to available_copies = total_copies, the value at which a clamp would
\* start to act.
C30_Witness ==
    \E p \in SerialProcs :
        /\ Done(p, "return") /\ result[p].ok /\ wfail = 0
        /\ snap[p].loc.book.available_copies + 1 = snap[p].loc.book.total_copies
        /\ db.active_borrows_by_user = {}

\* C31: a book's category, author and title are immutable once the book is
\* created: no step of any exposed operation (Borrow, Return, AddBook called
\* again with the same ISBN) changes them in books_by_id, where Borrow and
\* Return read the coordinates of the by-category and by-author rows they update.
C31_BookAttributesImmutable ==
    [][\A b \in db.books_by_id : \A b2 \in db'.books_by_id :
          b2.isbn = b.isbn =>
              /\ b2.category = b.category
              /\ b2.author = b.author
              /\ b2.title = b.title]_vars

\* C31: add_book has returned True for an ISBN that was there under another
\* title; the by-category view holds a row of the ISBN under each title.
C31_RetitledReached ==
    \E p \in SerialProcs :
        /\ Done(p, "add_book") /\ result[p] = TRUE
        /\ \E o \in snap[p].db.books_by_id :
              o.isbn = call[p].arg.isbn /\ o.title # call[p].arg.title
        /\ Cardinality({r.title : r \in RowsOf(db.books_by_category, call[p].arg.isbn)}) = 2

(* ------------------------ uncoordinated callers on a lent book --------- *)
\* The tables once the set-up has added book b and registered both patrons and
\* patron "u1" has borrowed the book at time 0.
Lent(b) ==
    LET d0 == create_user(create_user(add_book(EmptyDb, b), "u1", "e1", "fn", "ln"),
                          "u2", "e2", "fn", "ln")
        c == [op |-> "borrow", user_id |-> "u1", isbn |-> b.isbn,
              loan_days |-> DefaultLoanDays]
        l == [book |-> sel_book(d0, b.isbn), user |-> sel_user(d0, "u1"),
              match |-> NoRow, now |-> 0, due |-> Due(0, DefaultLoanDays)]
    IN  Replay(Len(BorrowPlan), d0, c, l)

LentDbs == {Lent(b) : b \in {s \in SetupBooks : ~ NoCopyLeft(s)}}

InitLent ==
    /\ db \in LentDbs
    /\ clock = 1
    /\ pc = [p \in Procs |-> "idle"]
    /\ call = [p \in Procs |-> NoCall]
    /\ loc = [p \in Procs |-> NoLoc]
    /\ result = [p \in Procs |-> NoResult]
    /\ snap = [p \in Procs |-> NoSnap]
    /\ applied = [p \in Procs |-> <<>>]
    /\ wfail = 0
    /\ returned = {}
    /\ closed = {}

\* Two callers that share the session and are not coordinated each make one
\* call, a Borrow or a Return, on the lent book; their statements interleave
\* freely and no statement raises.
NextLent ==
    \/ \E p \in ConcProcs, u \in UserIds, x \in SetupIsbns, days \in LoanDayChoices :
          pc[p] = "idle" /\ BeginBorrow(p, u, x, days)
    \/ \E p \in ConcProcs, u \in UserIds, x \in SetupIsbns :
          pc[p] = "idle" /\ BeginReturn(p, u, x)
    \/ \E p \in ConcProcs : Step(p)

LentSpec == InitLent /\ [][NextLent]_vars

\* The two callers have each completed a Return of the one open loan
\* (patron "u1", the set-up ISBN).
BothReturned(p, q) ==
    /\ p # q
    /\ Done(p, "return") /\ Done(q, "return")
    /\ call[p].user_id = "u1" /\ call[q].user_id = "u1"

\* available_copies the first of the two calls read: a call refused for want
\* of an active loan has read no book row.
CopiesAtStart(p, q) ==
    IF snap[p].loc.book = NoRow THEN snap[q].loc.book.available_copies
    ELSE IF snap[q].loc.book = NoRow THEN snap[p].loc.book.available_copies
    ELSE Min(snap[p].loc.book.available_copies, snap[q].loc.book.available_copies)

\* C32 (as stated): when two Return calls for the same (patron, isbn), with
\* exactly one open loan of that ISBN for that patron, have their steps
\* interleaved, at most one of them returns ok=true and the book's
\* available_copies grows by at most 1 in total.
C32_OneReturnWins ==
    \A p, q \in ConcProcs :
        BothReturned(p, q) =>
            /\ ~ (result[p].ok /\ result[q].ok)
            /\ \A b \in db.books_by_id : b.available_copies <= CopiesAtStart(p, q) + 1

\* C32 (amended): at least one of the two Returns returns ok=true, and both do
\* when each scans the partition before the other deletes the row; a refused
\* one returns 'no active loan'. available_copies grows by 1 when one succeeds
\* or both read the same value, by at most 2 otherwise, and never beyond
\* total_copies; the one active-loan row is deleted and the loan is RETURNED.
C32_BothReturnsCanWin ==
    \A p, q \in ConcProcs :
        BothReturned(p, q) =>
            /\ result[p].ok \/ result[q].ok
            /\ \A r \in {p, q} : ~ result[r].ok => result[r] = NoActiveLoan
            /\ \A b \in db.books_by_id :
                  /\ b.available_copies <= b.total_copies
                  /\ b.available_copies <= CopiesAtStart(p, q) + 2
                  /\ b.available_copies >= Min(CopiesAtStart(p, q) + 1, b.total_copies)
                  /\ ~ (result[p].ok /\ result[q].ok) =>
                        b.available_copies = Min(CopiesAtStart(p, q) + 1, b.total_copies)
            /\ db.active_borrows_by_user = {}
            /\ \A h \in db.borrows_by_user \cup db.borrows_by_book : h.status = "RETURNED"

\* C32 witness: both Returns of the one loan returned ok=true and the book has
\* two copies more than before them.
C32_Witness ==
    \E p, q \in ConcProcs :
        /\ BothReturned(p, q)
        /\ result[p].ok /\ result[q].ok
        /\ \E b \in db.books_by_id : b.available_copies = CopiesAtStart(p, q) + 2

\* The books the command line adds: every copy available (cli/main.py books_add).
FullBooks == {b \in SetupBooks : b.available_copies = b.total_copies}

\* A single thread of control on books added with every copy available; no
\* statement raises.
NextFull ==
    \/ \E b \in FullBooks :
          SettingUp /\ get_book_by_isbn(db, b.isbn) = NoRow /\ AddBook(b)
    \/ \E email \in Emails :
          SettingUp /\ (\A r \in db.users_by_email : r.email # email) /\ CreateUser(email)
    \/ \E p \in SerialProcs, u \in UserIds, x \in Isbns, days \in LoanDayChoices :
          BeginBorrow(p, u, x, days)
    \/ \E p \in SerialProcs, u \in UserIds, x \in Isbns : BeginReturn(p, u, x)
    \/ \E p \in SerialProcs : Step(p)

FullSpec == Init /\ [][NextFull]_vars

\* C33: conservation of copies: in a serial run of Borrow and Return calls
\* with no write failure, for every book added with available_copies =
\* total_copies, available_copies plus the number of active-loan rows of that
\* ISBN (over all patrons) equals total_copies after every call.
C33_CopiesConserved ==
    Quiet =>
        \A b \in db.books_by_id :
            b.available_copies + Cardinality(OpenLoansOfBook(db, b.isbn)) = b.total_copies

\* C33 witness: after a Return a book of two copies has one copy out and one
\* available.
C33_Witness ==
    \E p \in SerialProcs :
        /\ Done(p, "return") /\ result[p].ok
        /\ \E b \in db.books_by_id :
              /\ b.total_copies = 2 /\ b.available_copies = 1
              /\ Cardinality(OpenLoansOfBook(db, b.isbn)) = 1

\* C34: under any interleaving of the steps of concurrent Borrow and Return
\* calls, no write stores a negative available_copies in any of the three book
\* views: a Borrow in its try block has read available_copies > 0 and writes
\* that value minus 1.
C34_NoNegativeCopies ==
    /\ \A t \in BookViews : \A r \in db[t] : r.available_copies >= 0
    /\ \A p \in ConcProcs :
          (pc[p] = "b_try" \/ (Done(p, "borrow") /\ result[p].ok)) =>
              LET book == IF pc[p] = "b_try" THEN loc[p].book ELSE snap[p].loc.book
              IN  book.available_copies > 0 /\ NewAvailBorrow(book) >= 0

\* C34 witness: two interleaved Borrows both read the last copy and both wrote
\* 0; the three views hold 0.
C34_Witness ==
    \E p, q \in ConcProcs :
        /\ p # q
        /\ BorrowedLastCopy(p, call[p].isbn) /\ BorrowedLastCopy(q, call[q].isbn)
        /\ result[p].ok /\ result[q].ok
        /\ \A t \in BookViews : \A r \in db[t] : r.available_copies = 0

\* C35: under any interleaving of the steps of concurrent Borrow and Return
\* calls on books whose total_copies is set and that were added with
\* available_copies <= total_copies, available_copies in books_by_id never
\* exceeds total_copies.
C35_CopiesNeverAboveTotal ==
    \A b \in db.books_by_id :
        b.total_copies # NoneInt => b.available_copies <= b.total_copies

\* C35 witness: of two interleaved Returns of one loan, one read
\* available_copies = total_copies, which the other had just written, and both
\* returned ok=true.
C35_Witness ==
    \E p, q \in ConcProcs :
        /\ BothReturned(p, q)
        /\ result[p].ok /\ result[q].ok
        /\ snap[q].loc.book.available_copies = snap[q].loc.book.total_copies
        /\ snap[p].loc.book.available_copies < snap[p].loc.book.total_copies

\* The number of rows patron user_id has in borrows_by_user.
LoansEver(d, user_id) == Cardinality({r \in d.borrows_by_user : r.user_id = user_id})

\* C36 (as stated): under any interleaving of the steps of concurrent Borrow
\* and Return calls of the same patron, the patron's total_borrows never
\* decreases, and after all calls complete it equals the number of that
\* patron's rows in borrows_by_user.
C36_TotalBorrowsExact ==
    [][/\ \A u \in db.users_by_id : \A u2 \in db'.users_by_id :
             u2.user_id = u.user_id => u2.total_borrows >= u.total_borrows
       /\ Quiet' => \A u2 \in db'.users_by_id :
                        u2.total_borrows = LoansEver(db', u2.user_id)]_vars

\* C36 (amended): under any interleaving, the patron's total_borrows never
\* exceeds the number of that patron's rows in borrows_by_user; it can decrease
\* and can stay below that number after all calls complete.
C36_TotalBorrowsAtMostRows ==
    \A u \in db.users_by_id : u.total_borrows <= LoansEver(db, u.user_id)

\* C36 witness: two interleaved Borrows of one patron have both returned
\* ok=true and total_borrows counts one of them.
C36_Witness ==
    \E p, q \in ConcProcs :
        /\ p # q
        /\ Done(p, "borrow") /\ Done(q, "borrow") /\ result[p].ok /\ result[q].ok
        /\ call[p].user_id = call[q].user_id
        /\ \E u \in db.users_by_id :
              /\ u.user_id = call[p].user_id
              /\ u.total_borrows + 1 = LoansEver(db, u.user_id)

\* C36: total_borrows has gone down: a Return wrote back the value it had read
\* before a Borrow of the same patron raised it.
C36_DecreaseReached ==
    \E p, q \in ConcProcs :
        /\ Done(p, "borrow") /\ Done(q, "return") /\ result[p].ok /\ result[q].ok
        /\ call[p].user_id = call[q].user_id
        /\ \E u \in db.users_by_id :
              /\ u.user_id = call[p].user_id
              /\ u.total_borrows < OrZero(snap[p].loc.user.total_borrows) + 1

\* The rows of history view t that are BORROWED.
StillBorrowed(t) == {h \in t : h.status = "BORROWED"}

\* C37: Borrow does not refuse a patron who already holds an open loan of the
\* same ISBN; when a patron holds several open loans of one ISBN, one
\* successful Return(patron, isbn) closes exactly one of them, the one whose
\* row the partition scan matched: exactly one active-loan row is deleted,
\* exactly one loan becomes RETURNED, and the other loans stay BORROWED with
\* their active rows.
C37_SeveralLoansOfOneIsbn ==
    \A p \in SerialProcs :
        LET d == snap[p].db
            c == call[p]
            open == OpenLoans(d, c.user_id, c.isbn)
        IN  /\ (/\ Done(p, "borrow") /\ wfail = 0 /\ open # {}
                /\ sel_book(d, c.isbn) # NoRow /\ ~ NoCopyLeft(sel_book(d, c.isbn))) =>
                   /\ result[p].ok
                   /\ Cardinality(OpenLoans(db, c.user_id, c.isbn)) = Cardinality(open) + 1
            /\ (/\ Done(p, "return") /\ result[p].ok /\ wfail = 0
                /\ Cardinality(open) >= 2) =>
                   LET match == snap[p].loc.match
                       gone == d.active_borrows_by_user \ db.active_borrows_by_user
                   IN  /\ match \in open
                       /\ gone = {match}
                       /\ db.active_borrows_by_user = d.active_borrows_by_user \ {match}
                       /\ \A t \in {"borrows_by_user", "borrows_by_book"} :
                             /\ Cardinality(StillBorrowed(d[t]) \ StillBorrowed(db[t])) = 1
                             /\ \A h \in StillBorrowed(d[t]) \ StillBorrowed(db[t]) :
                                   HasLoanKey(h, c, match.borrow_date)
                             /\ StillBorrowed(db[t]) \subseteq StillBorrowed(d[t])
                             /\ \A h \in StillBorrowed(db[t]) :
                                   \E a \in db.active_borrows_by_user :
                                       /\ a.user_id = h.user_id /\ a.isbn = h.isbn
                                       /\ a.borrow_date = h.borrow_date
                             /\ Cardinality(db[t]) = Cardinality(d[t])

\* C37 witness: a patron who held two open loans of one ISBN has returned one:
\* one open loan of that ISBN is left.
C37_Witness ==
    \E p \in SerialProcs :
        /\ Done(p, "return") /\ result[p].ok /\ wfail = 0
        /\ Cardinality(OpenLoans(snap[p].db, call[p].user_id, call[p].isbn)) = 2
        /\ Cardinality(OpenLoans(db, call[p].user_id, call[p].isbn)) = 1

\* C37: a patron holding an open loan of the ISBN has borrowed it again.
C37_SecondBorrowReached ==
    \E p \in SerialProcs :
        /\ Done(p, "borrow") /\ result[p].ok /\ wfail = 0
        /\ OpenLoans(snap[p].db, call[p].user_id, call[p].isbn) # {}

(* ------------------------ a library of two books ----------------------- *)
\* The tables once the set-up has added book b under both ISBNs and registered
\* both patrons.
TwoBooks(b) ==
    LET b1 == [b EXCEPT !.isbn = "x1"]
        b2 == [b EXCEPT !.isbn = "x2"]
    IN  create_user(create_user(add_book(add_book(EmptyDb, b1), b2),
                                "u1", "e1", "fn", "ln"),
                    "u2", "e2", "fn", "ln")

InitTwoBooks ==
    /\ db \in {TwoBooks(b) : b \in FullBooks}
    /\ clock = 0
    /\ pc = [p \in Procs |-> "idle"]
    /\ call = [p \in Procs |-> NoCall]
    /\ loc = [p \in Procs |-> NoLoc]
    /\ result = [p \in Procs |-> NoResult]
    /\ snap = [p \in Procs |-> NoSnap]
    /\ applied = [p \in Procs |-> <<>>]
    /\ wfail = 0
    /\ returned = {}
    /\ closed = {}

\* A single thread of control that borrows and returns either book for either
\* patron; no statement raises.
NextTwoBooks ==
    \/ \E p \in SerialProcs, u \in UserIds, x \in Isbns, days \in LoanDayChoices :
          BeginBorrow(p, u, x, days)
    \/ \E p \in SerialProcs, u \in UserIds, x \in Isbns : BeginReturn(p, u, x)
    \/ \E p \in SerialProcs : Step(p)

TwoBooksSpec == InitTwoBooks /\ [][NextTwoBooks]_vars

\* The rows without their counters.
NoCopies(rows) == {[r EXCEPT !.available_copies = 0] : r \in rows}
NoCounts(rows) == {[r EXCEPT !.total_borrows = 0, !.active_borrows = 0] : r \in rows}

\* This step of the call of caller p (patron u, ISBN x) leaves what is not the
\* call's own as it was.
Framed(p) ==
    LET u == call[p].user_id
        x == call[p].isbn
        Others(t) == {r \in t : r.user_id # u \/ r.isbn # x}
    IN  /\ \A t \in BookViews :
              /\ {r \in db'[t] : r.isbn # x} = {r \in db[t] : r.isbn # x}
              /\ NoCopies(RowsOf(db'[t], x)) = NoCopies(RowsOf(db[t], x))
        /\ {r \in db'.users_by_id : r.user_id # u} = {r \in db.users_by_id : r.user_id # u}
        /\ NoCounts(db'.users_by_id) = NoCounts(db.users_by_id)
        /\ Others(db'.borrows_by_user) = Others(db.borrows_by_user)
        /\ Others(db'.borrows_by_book) = Others(db.borrows_by_book)
        /\ Others(db'.active_borrows_by_user) = Others(db.active_borrows_by_user)
        /\ db'.users_by_email = db.users_by_email

\* C38: a Borrow or Return by patron u on ISBN x leaves unchanged: every row of
\* every other book in the three book views, total_copies, category, author and
\* title of book x, the counters of every other patron, every history and
\* active-loan row of other patrons or of other ISBNs, and users_by_email.
C38_BorrowReturnFrame ==
    [][\A p \in SerialProcs :
          IF call'[p].op \in {"borrow", "return"} /\ call'[p] = call[p]
          THEN Framed(p)
          ELSE db' = db]_vars

\* C38 witness: a Return has completed while the other patron holds an open
\* loan of the same book and the same patron an open loan of the other book.
C38_Witness ==
    \E p \in SerialProcs :
        /\ Done(p, "return") /\ result[p].ok
        /\ \E r \in db.active_borrows_by_user :
              r.user_id # call[p].user_id /\ r.isbn = call[p].isbn
        /\ \E r \in db.active_borrows_by_user :
              r.user_id = call[p].user_id /\ r.isbn # call[p].isbn

(* ------------------------ validation reads that raise ------------------ *)
\* What a SELECT can raise.
ReadCauses == {"ReadTimeout"}

\* The positions of the validation reads: borrow_book reads the book and the
\* patron, return_book the active-loan partition, the book and the patron.
ReadPositions == {"b_sel_book", "b_sel_user", "r_sel_active", "r_sel_book", "r_sel_user"}

\* Mutant of ReadFails: the exception is caught and converted to a result, as
\* for the statements of the try block.
ReadFailsConverted(p, e) ==
    /\ pc[p] \in ReadPositions
    /\ Return(p, BorrowResult(FALSE, "Erreur lecture", e), loc[p])
    /\ UNCHANGED <<db, clock, call, applied, wfail, returned, closed>>

\* The SELECT at the position of caller p raises: the read is outside the try
\* block, so the exception leaves the call.
ReadFails(p, e) ==
    /\ pc[p] \in ReadPositions
    /\ Raise(p, e)
    /\ UNCHANGED <<db, clock, call, applied, wfail, returned, closed>>

\* A single thread of control on books added with every copy available; any
\* validation read may raise, no write does.
NextReads ==
    \/ \E b \in FullBooks :
          SettingUp /\ get_book_by_isbn(db, b.isbn) = NoRow /\ AddBook(b)
    \/ \E email \in Emails :
          SettingUp /\ (\A r \in db.users_by_email : r.email # email) /\ CreateUser(email)
    \/ \E p \in SerialProcs, u \in UserIds, x \in SetupIsbns, days \in LoanDayChoices :
          BeginBorrow(p, u, x, days)
    \/ \E p \in SerialProcs, u \in UserIds, x \in SetupIsbns : BeginReturn(p, u, x)
    \/ \E p \in SerialProcs : Step(p)
    \/ \E p \in SerialProcs, e \in ReadCauses : ReadFails(p, e)

ReadsSpec == Init /\ [][NextReads]_vars

\* C39: a storage exception raised by one of the validation reads of Borrow
\* (book, patron) or Return (active-loan partition, book, patron) is not
\* converted to a failure result: it propagates to the caller, and at that
\* point the call has applied no write.
C39_ReadFailurePropagates ==
    \A p \in SerialProcs :
        call[p].op \in {"borrow", "return"} =>
            /\ pc[p] = "raised" =>
                  /\ \E e \in ReadCauses : result[p] = [exception |-> e]
                  /\ applied[p] = <<>>
                  /\ db = snap[p].db
            /\ pc[p] = "done" => result[p].message[2] \notin ReadCauses

\* C39 witness: the third read of a Return, the patron row, raised after the
\* active loan and the book had been read.
C39_Witness ==
    \E p \in SerialProcs :
        /\ pc[p] = "raised" /\ call[p].op = "return"
        /\ snap[p].loc.match # NoRow /\ snap[p].loc.book # NoRow
        /\ OpenLoans(db, call[p].user_id, call[p].isbn) # {}

\* C39: the second read of a Borrow, the patron row, raised.
C39_BorrowReadReached ==
    \E p \in SerialProcs :
        /\ pc[p] = "raised" /\ call[p].op = "borrow"
        /\ snap[p].loc.book # NoRow

====
